---- MODULE Spec2Model ----
(***************************************************************************)
(* Model of src/create_angular_presentation.py: a script that builds a     *)
(* 14-slide presentation through python-pptx and saves it.                 *)
(*                                                                         *)
(* The script is modelled as a small interpreter.  Every function of the   *)
(* script (main, create_angular_presentation and the fourteen create_*     *)
(* builders) is an instruction table with one record per executed          *)
(* statement, each record carrying the source line of its statement.  The  *)
(* state is the call stack, the presentation object, the colour table,     *)
(* standard output, the files written and the pending exception.           *)
(*                                                                         *)
(* Conventions of the tables:                                              *)
(*  - an operand e is [k |-> "str", v |-> text], [k |-> "rgb", v |-> rgb], *)
(*    [k |-> "key", v |-> name] for the lookup colors[name], or            *)
(*    [k |-> "item", v |-> j] for component j of the current loop item;    *)
(*  - left/top/width/height are the values of Inches(x) = int(x * 914400); *)
(*  - a character outside printable ASCII is written {U+XXXX}.             *)
(***************************************************************************)
EXTENDS Integers, Sequences, FiniteSets, TLC

VARIABLES stack, prs, colors, stdout, files, exc, status, calls, result

vars == <<stack, prs, colors, stdout, files, exc, status, calls, result>>

\* pptx.util.Length: English Metric Units per inch and per point.
EMUS_PER_INCH == 914400
EMUS_PER_PT == 12700

\* Inches(x) = int(x * 914400); the argument is given in hundredths of an inch
\* (13.33 is Inches(1333)), so the truncation of int() is the integer division.
Inches(hundredths) == (hundredths * EMUS_PER_INCH) \div 100

\* (PtAsInches: the points are taken for inches.)
PtAsInches(points) == points * EMUS_PER_INCH

\* Pt(n) = int(n * 12700)
Pt(points) == points * EMUS_PER_PT

\* RGBColor(r, g, b)
RGBColor(r, g, b) == <<r, g, b>>

\* The colours dictionary literal of create_angular_presentation().
ColorTable ==
  [ title_bg_start |-> RGBColor(26, 26, 46),
    title_bg_end |-> RGBColor(22, 33, 62),
    content_bg |-> RGBColor(255, 255, 255),
    angular_red |-> RGBColor(221, 0, 49),
    lighthouse_blue |-> RGBColor(66, 133, 244),
    performance_green |-> RGBColor(52, 168, 83),
    light_blue |-> RGBColor(135, 206, 235),
    dark_blue |-> RGBColor(26, 26, 46),
    dark_gray |-> RGBColor(51, 51, 51),
    white |-> RGBColor(255, 255, 255),
    light_gray |-> RGBColor(200, 200, 200),
    red_gradient_start |-> RGBColor(255, 107, 107),
    red_gradient_end |-> RGBColor(255, 142, 142),
    blue_gradient_start |-> RGBColor(66, 133, 244),
    blue_gradient_end |-> RGBColor(135, 206, 235),
    green_gradient_start |-> RGBColor(52, 168, 83),
    green_gradient_end |-> RGBColor(144, 238, 144),
    orange_gradient_start |-> RGBColor(251, 188, 4),
    orange_gradient_end |-> RGBColor(255, 215, 0),
    purple_gradient_start |-> RGBColor(156, 39, 176),
    purple_gradient_end |-> RGBColor(225, 190, 231),
    teal_gradient_start |-> RGBColor(0, 150, 136),
    teal_gradient_end |-> RGBColor(128, 203, 196),
    indigo_gradient_start |-> RGBColor(63, 81, 181),
    indigo_gradient_end |-> RGBColor(159, 168, 218),
    dark_gradient_start |-> RGBColor(44, 62, 80),
    dark_gradient_end |-> RGBColor(52, 73, 94),
    success_gradient_start |-> RGBColor(39, 174, 96),
    success_gradient_end |-> RGBColor(88, 214, 141),
    future_gradient_start |-> RGBColor(142, 68, 173),
    future_gradient_end |-> RGBColor(187, 143, 206),
    action_gradient_start |-> RGBColor(231, 76, 60),
    action_gradient_end |-> RGBColor(241, 148, 138),
    discussion_gradient_start |-> RGBColor(52, 152, 219),
    discussion_gradient_end |-> RGBColor(133, 193, 233),
    gratitude_gradient_start |-> RGBColor(243, 156, 18),
    gratitude_gradient_end |-> RGBColor(247, 220, 111) ]

\* main(), source lines 1022-1036.
main ==
  << [op |-> "print", line |-> 1024, e |-> [k |-> "str", v |-> "Creating Angular Optimization TED Talk presentation..."]],
     [op |-> "call", line |-> 1027, fn |-> "create_angular_presentation"],
     [op |-> "output_path", line |-> 1030, e |-> [k |-> "str", v |-> "/workspace/Angular_Optimization_TED_Talk.pptx"]],
     [op |-> "save", line |-> 1031],
     [op |-> "print_path", line |-> 1033, e |-> [k |-> "str", v |-> "Presentation created successfully: "]],
     [op |-> "print_count", line |-> 1034, e |-> [k |-> "str", v |-> "Total slides: "]],
     [op |-> "return_path", line |-> 1036] >>

\* create_angular_presentation(), source lines 15-111.
create_angular_presentation ==
  << [op |-> "Presentation", line |-> 19],
     [op |-> "slide_width", line |-> 22, hundredths |-> 1333],
     [op |-> "slide_height", line |-> 23, hundredths |-> 750],
     [op |-> "colors", line |-> 26],
     [op |-> "call", line |-> 70, fn |-> "create_title_slide"],
     [op |-> "call", line |-> 73, fn |-> "create_hook_slide"],
     [op |-> "call", line |-> 76, fn |-> "create_lighthouse_metrics_slide"],
     [op |-> "call", line |-> 79, fn |-> "create_approach_slide"],
     [op |-> "call", line |-> 82, fn |-> "create_lazy_loading_slide"],
     [op |-> "call", line |-> 85, fn |-> "create_onpush_slide"],
     [op |-> "call", line |-> 88, fn |-> "create_font_loading_slide"],
     [op |-> "call", line |-> 91, fn |-> "create_material_modules_slide"],
     [op |-> "call", line |-> 94, fn |-> "create_demo_slide"],
     [op |-> "call", line |-> 97, fn |-> "create_results_slide"],
     [op |-> "call", line |-> 100, fn |-> "create_roadmap_slide"],
     [op |-> "call", line |-> 103, fn |-> "create_cta_slide"],
     [op |-> "call", line |-> 106, fn |-> "create_qa_slide"],
     [op |-> "call", line |-> 109, fn |-> "create_thank_you_slide"],
     [op |-> "return", line |-> 111] >>

\* create_title_slide(prs, colors), source lines 113-182: one record per executed
\* statement, the for loops over literal lists unrolled.
create_title_slide ==
  << [op |-> "layout", line |-> 115, idx |-> 6],
     [op |-> "add_slide", line |-> 116],
     [op |-> "bind", line |-> 119, name |-> "background"],
     [op |-> "bind", line |-> 120, name |-> "fill"],
     [op |-> "solid", line |-> 121],
     [op |-> "bg_rgb", line |-> 122, e |-> [k |-> "key", v |-> "title_bg_start"]],
     [op |-> "add_textbox", line |-> 125, name |-> "title_box", left |-> 914400, top |-> 1828800, width |-> 10360152, height |-> 1371600],
     [op |-> "bind", line |-> 126, name |-> "title_frame"],
     [op |-> "clear", line |-> 127],
     [op |-> "para", line |-> 128, idx |-> 0],
     [op |-> "text", line |-> 129, e |-> [k |-> "str", v |-> "The Zen of Angular Optimization: A Lighthouse-Guided Journey"]],
     [op |-> "size", line |-> 130, pt |-> 48],
     [op |-> "bold", line |-> 131, b |-> TRUE],
     [op |-> "font", line |-> 132, e |-> [k |-> "str", v |-> "Roboto"]],
     [op |-> "rgb", line |-> 133, e |-> [k |-> "key", v |-> "white"]],
     [op |-> "align", line |-> 134, a |-> "CENTER"],
     [op |-> "add_textbox", line |-> 137, name |-> "subtitle_box", left |-> 914400, top |-> 3474720, width |-> 10360152, height |-> 731520],
     [op |-> "bind", line |-> 138, name |-> "subtitle_frame"],
     [op |-> "clear", line |-> 139],
     [op |-> "para", line |-> 140, idx |-> 0],
     [op |-> "text", line |-> 141, e |-> [k |-> "str", v |-> "From 4.5MB bundles to blazing-fast load times"]],
     [op |-> "size", line |-> 142, pt |-> 24],
     [op |-> "font", line |-> 143, e |-> [k |-> "str", v |-> "Roboto"]],
     [op |-> "rgb", line |-> 144, e |-> [k |-> "key", v |-> "light_blue"]],
     [op |-> "align", line |-> 145, a |-> "CENTER"],
     [op |-> "add_textbox", line |-> 149, name |-> "angular_box", left |-> 457200, top |-> 457200, width |-> 1828800, height |-> 731520],
     [op |-> "bind", line |-> 150, name |-> "angular_frame"],
     [op |-> "clear", line |-> 151],
     [op |-> "para", line |-> 152, idx |-> 0],
     [op |-> "text", line |-> 153, e |-> [k |-> "str", v |-> "Angular"]],
     [op |-> "size", line |-> 154, pt |-> 20],
     [op |-> "bold", line |-> 155, b |-> TRUE],
     [op |-> "rgb", line |-> 156, e |-> [k |-> "key", v |-> "angular_red"]],
     [op |-> "add_textbox", line |-> 159, name |-> "lighthouse_box", left |-> 9902952, top |-> 457200, width |-> 1828800, height |-> 731520],
     [op |-> "bind", line |-> 160, name |-> "lighthouse_frame"],
     [op |-> "clear", line |-> 161],
     [op |-> "para", line |-> 162, idx |-> 0],
     [op |-> "text", line |-> 163, e |-> [k |-> "str", v |-> "Lighthouse"]],
     [op |-> "size", line |-> 164, pt |-> 20],
     [op |-> "bold", line |-> 165, b |-> TRUE],
     [op |-> "rgb", line |-> 166, e |-> [k |-> "key", v |-> "lighthouse_blue"]],
     [op |-> "align", line |-> 167, a |-> "RIGHT"],
     [op |-> "add_textbox", line |-> 170, name |-> "perf_box", left |-> 3657600, top |-> 4754880, width |-> 4873752, height |-> 731520],
     [op |-> "bind", line |-> 171, name |-> "perf_frame"],
     [op |-> "clear", line |-> 172],
     [op |-> "para", line |-> 173, idx |-> 0],
     [op |-> "text", line |-> 174, e |-> [k |-> "str", v |-> "Performance Score: 45 {U+2192} 78"]],
     [op |-> "size", line |-> 175, pt |-> 20],
     [op |-> "rgb", line |-> 176, e |-> [k |-> "key", v |-> "performance_green"]],
     [op |-> "align", line |-> 177, a |-> "CENTER"],
     [op |-> "notes_slide", line |-> 180],
     [op |-> "bind", line |-> 181, name |-> "notes_text_frame"],
     [op |-> "notes_text", line |-> 182, e |-> [k |-> "str", v |-> "Hook: Start with '3 seconds. That's all you have.' Make eye contact, pause for dramatic effect. Frame this as an opportunity, not a problem."]],
     [op |-> "return", line |-> 182] >>

\* create_hook_slide(prs, colors), source lines 184-240: one record per executed
\* statement, the for loops over literal lists unrolled.
create_hook_slide ==
  << [op |-> "layout", line |-> 186, idx |-> 6],
     [op |-> "add_slide", line |-> 187],
     [op |-> "bind", line |-> 190, name |-> "background"],
     [op |-> "bind", line |-> 191, name |-> "fill"],
     [op |-> "solid", line |-> 192],
     [op |-> "bg_rgb", line |-> 193, e |-> [k |-> "key", v |-> "red_gradient_start"]],
     [op |-> "add_textbox", line |-> 196, name |-> "countdown_box", left |-> 1828800, top |-> 1371600, width |-> 8531352, height |-> 1828800],
     [op |-> "bind", line |-> 197, name |-> "countdown_frame"],
     [op |-> "clear", line |-> 198],
     [op |-> "para", line |-> 199, idx |-> 0],
     [op |-> "text", line |-> 200, e |-> [k |-> "str", v |-> "3"]],
     [op |-> "size", line |-> 201, pt |-> 120],
     [op |-> "bold", line |-> 202, b |-> TRUE],
     [op |-> "font", line |-> 203, e |-> [k |-> "str", v |-> "Roboto"]],
     [op |-> "rgb", line |-> 204, e |-> [k |-> "key", v |-> "white"]],
     [op |-> "align", line |-> 205, a |-> "CENTER"],
     [op |-> "add_textbox", line |-> 208, name |-> "subtitle_box", left |-> 914400, top |-> 3474720, width |-> 10360152, height |-> 731520],
     [op |-> "bind", line |-> 209, name |-> "subtitle_frame"],
     [op |-> "clear", line |-> 210],
     [op |-> "para", line |-> 211, idx |-> 0],
     [op |-> "text", line |-> 212, e |-> [k |-> "str", v |-> "That's All You Have"]],
     [op |-> "size", line |-> 213, pt |-> 36],
     [op |-> "font", line |-> 214, e |-> [k |-> "str", v |-> "Roboto"]],
     [op |-> "rgb", line |-> 215, e |-> [k |-> "key", v |-> "white"]],
     [op |-> "align", line |-> 216, a |-> "CENTER"],
     [op |-> "add_textbox", line |-> 219, name |-> "stats_box", left |-> 914400, top |-> 4572000, width |-> 10360152, height |-> 1371600],
     [op |-> "bind", line |-> 220, name |-> "stats_frame"],
     [op |-> "clear", line |-> 221],
     [op |-> "list", line |-> 223, name |-> "stats", items |-> <<<<[k |-> "str", v |-> "53% of users abandon if load > 3 seconds"]>>,
        <<[k |-> "str", v |-> "4.47 MB initial bundle"]>>,
        <<[k |-> "str", v |-> "Performance Score: 45/100"]>>>>],
     [op |-> "iter", line |-> 229, list |-> "stats", i |-> 0],
     [op |-> "para_or_add", line |-> 230, idx |-> 0],
     [op |-> "text", line |-> 231, e |-> [k |-> "item", v |-> 1]],
     [op |-> "size", line |-> 232, pt |-> 20],
     [op |-> "font", line |-> 233, e |-> [k |-> "str", v |-> "Roboto"]],
     [op |-> "rgb", line |-> 234, e |-> [k |-> "key", v |-> "light_gray"]],
     [op |-> "align", line |-> 235, a |-> "CENTER"],
     [op |-> "iter", line |-> 229, list |-> "stats", i |-> 1],
     [op |-> "para_or_add", line |-> 230, idx |-> 1],
     [op |-> "text", line |-> 231, e |-> [k |-> "item", v |-> 1]],
     [op |-> "size", line |-> 232, pt |-> 20],
     [op |-> "font", line |-> 233, e |-> [k |-> "str", v |-> "Roboto"]],
     [op |-> "rgb", line |-> 234, e |-> [k |-> "key", v |-> "light_gray"]],
     [op |-> "align", line |-> 235, a |-> "CENTER"],
     [op |-> "iter", line |-> 229, list |-> "stats", i |-> 2],
     [op |-> "para_or_add", line |-> 230, idx |-> 2],
     [op |-> "text", line |-> 231, e |-> [k |-> "item", v |-> 1]],
     [op |-> "size", line |-> 232, pt |-> 20],
     [op |-> "font", line |-> 233, e |-> [k |-> "str", v |-> "Roboto"]],
     [op |-> "rgb", line |-> 234, e |-> [k |-> "key", v |-> "light_gray"]],
     [op |-> "align", line |-> 235, a |-> "CENTER"],
     [op |-> "endfor", line |-> 229, list |-> "stats"],
     [op |-> "notes_slide", line |-> 238],
     [op |-> "bind", line |-> 239, name |-> "notes_text_frame"],
     [op |-> "notes_text", line |-> 240, e |-> [k |-> "str", v |-> "Don't shame the current state. Frame as 'opportunity for improvement'. Use hand gestures to emphasize the 3-second countdown."]],
     [op |-> "return", line |-> 240] >>

\* create_lighthouse_metrics_slide(prs, colors), source lines 242-308: one record per executed
\* statement, the for loops over literal lists unrolled.
create_lighthouse_metrics_slide ==
  << [op |-> "layout", line |-> 244, idx |-> 6],
     [op |-> "add_slide", line |-> 245],
     [op |-> "bind", line |-> 248, name |-> "background"],
     [op |-> "bind", line |-> 249, name |-> "fill"],
     [op |-> "solid", line |-> 250],
     [op |-> "bg_rgb", line |-> 251, e |-> [k |-> "key", v |-> "blue_gradient_start"]],
     [op |-> "add_textbox", line |-> 254, name |-> "title_box", left |-> 914400, top |-> 457200, width |-> 10360152, height |-> 914400],
     [op |-> "bind", line |-> 255, name |-> "title_frame"],
     [op |-> "clear", line |-> 256],
     [op |-> "para", line |-> 257, idx |-> 0],
     [op |-> "text", line |-> 258, e |-> [k |-> "str", v |-> "What Lighthouse Really Measures"]],
     [op |-> "size", line |-> 259, pt |-> 36],
     [op |-> "bold", line |-> 260, b |-> TRUE],
     [op |-> "font", line |-> 261, e |-> [k |-> "str", v |-> "Roboto"]],
     [op |-> "rgb", line |-> 262, e |-> [k |-> "key", v |-> "white"]],
     [op |-> "align", line |-> 263, a |-> "CENTER"],
     [op |-> "list", line |-> 266, name |-> "metrics", items |-> <<<<[k |-> "str", v |-> "FCP"], [k |-> "str", v |-> "First Contentful Paint"], [k |-> "str", v |-> "When users see something"], [k |-> "key", v |-> "performance_green"]>>,
        <<[k |-> "str", v |-> "LCP"], [k |-> "str", v |-> "Largest Contentful Paint"], [k |-> "str", v |-> "When they see what matters"], [k |-> "key", v |-> "lighthouse_blue"]>>,
        <<[k |-> "str", v |-> "TTI"], [k |-> "str", v |-> "Time to Interactive"], [k |-> "str", v |-> "When they can do something"], [k |-> "key", v |-> "orange_gradient_start"]>>,
        <<[k |-> "str", v |-> "CLS"], [k |-> "str", v |-> "Cumulative Layout Shift"], [k |-> "str", v |-> "Whether the page is stable"], [k |-> "rgb", v |-> <<255, 100, 100>>]>>>>],
     [op |-> "bind", line |-> 273, name |-> "y_start"],
     [op |-> "iter", line |-> 274, list |-> "metrics", i |-> 0],
     [op |-> "add_textbox", line |-> 276, name |-> "abbr_box", left |-> 914400, top |-> 1828800, width |-> 1371600, height |-> 731520],
     [op |-> "bind", line |-> 277, name |-> "abbr_frame"],
     [op |-> "clear", line |-> 278],
     [op |-> "para", line |-> 279, idx |-> 0],
     [op |-> "text", line |-> 280, e |-> [k |-> "item", v |-> 1]],
     [op |-> "size", line |-> 281, pt |-> 24],
     [op |-> "bold", line |-> 282, b |-> TRUE],
     [op |-> "rgb", line |-> 283, e |-> [k |-> "item", v |-> 4]],
     [op |-> "align", line |-> 284, a |-> "CENTER"],
     [op |-> "add_textbox", line |-> 287, name |-> "name_box", left |-> 2743200, top |-> 1828800, width |-> 3657600, height |-> 365760],
     [op |-> "bind", line |-> 288, name |-> "name_frame"],
     [op |-> "clear", line |-> 289],
     [op |-> "para", line |-> 290, idx |-> 0],
     [op |-> "text", line |-> 291, e |-> [k |-> "item", v |-> 2]],
     [op |-> "size", line |-> 292, pt |-> 18],
     [op |-> "bold", line |-> 293, b |-> TRUE],
     [op |-> "rgb", line |-> 294, e |-> [k |-> "key", v |-> "white"]],
     [op |-> "add_textbox", line |-> 297, name |-> "desc_box", left |-> 2743200, top |-> 2194560, width |-> 7315200, height |-> 548640],
     [op |-> "bind", line |-> 298, name |-> "desc_frame"],
     [op |-> "clear", line |-> 299],
     [op |-> "para", line |-> 300, idx |-> 0],
     [op |-> "text", line |-> 301, e |-> [k |-> "item", v |-> 3]],
     [op |-> "size", line |-> 302, pt |-> 16],
     [op |-> "rgb", line |-> 303, e |-> [k |-> "key", v |-> "light_gray"]],
     [op |-> "iter", line |-> 274, list |-> "metrics", i |-> 1],
     [op |-> "add_textbox", line |-> 276, name |-> "abbr_box", left |-> 914400, top |-> 2926080, width |-> 1371600, height |-> 731520],
     [op |-> "bind", line |-> 277, name |-> "abbr_frame"],
     [op |-> "clear", line |-> 278],
     [op |-> "para", line |-> 279, idx |-> 0],
     [op |-> "text", line |-> 280, e |-> [k |-> "item", v |-> 1]],
     [op |-> "size", line |-> 281, pt |-> 24],
     [op |-> "bold", line |-> 282, b |-> TRUE],
     [op |-> "rgb", line |-> 283, e |-> [k |-> "item", v |-> 4]],
     [op |-> "align", line |-> 284, a |-> "CENTER"],
     [op |-> "add_textbox", line |-> 287, name |-> "name_box", left |-> 2743200, top |-> 2926080, width |-> 3657600, height |-> 365760],
     [op |-> "bind", line |-> 288, name |-> "name_frame"],
     [op |-> "clear", line |-> 289],
     [op |-> "para", line |-> 290, idx |-> 0],
     [op |-> "text", line |-> 291, e |-> [k |-> "item", v |-> 2]],
     [op |-> "size", line |-> 292, pt |-> 18],
     [op |-> "bold", line |-> 293, b |-> TRUE],
     [op |-> "rgb", line |-> 294, e |-> [k |-> "key", v |-> "white"]],
     [op |-> "add_textbox", line |-> 297, name |-> "desc_box", left |-> 2743200, top |-> 3291840, width |-> 7315200, height |-> 548640],
     [op |-> "bind", line |-> 298, name |-> "desc_frame"],
     [op |-> "clear", line |-> 299],
     [op |-> "para", line |-> 300, idx |-> 0],
     [op |-> "text", line |-> 301, e |-> [k |-> "item", v |-> 3]],
     [op |-> "size", line |-> 302, pt |-> 16],
     [op |-> "rgb", line |-> 303, e |-> [k |-> "key", v |-> "light_gray"]],
     [op |-> "iter", line |-> 274, list |-> "metrics", i |-> 2],
     [op |-> "add_textbox", line |-> 276, name |-> "abbr_box", left |-> 914400, top |-> 4023360, width |-> 1371600, height |-> 731520],
     [op |-> "bind", line |-> 277, name |-> "abbr_frame"],
     [op |-> "clear", line |-> 278],
     [op |-> "para", line |-> 279, idx |-> 0],
     [op |-> "text", line |-> 280, e |-> [k |-> "item", v |-> 1]],
     [op |-> "size", line |-> 281, pt |-> 24],
     [op |-> "bold", line |-> 282, b |-> TRUE],
     [op |-> "rgb", line |-> 283, e |-> [k |-> "item", v |-> 4]],
     [op |-> "align", line |-> 284, a |-> "CENTER"],
     [op |-> "add_textbox", line |-> 287, name |-> "name_box", left |-> 2743200, top |-> 4023360, width |-> 3657600, height |-> 365760],
     [op |-> "bind", line |-> 288, name |-> "name_frame"],
     [op |-> "clear", line |-> 289],
     [op |-> "para", line |-> 290, idx |-> 0],
     [op |-> "text", line |-> 291, e |-> [k |-> "item", v |-> 2]],
     [op |-> "size", line |-> 292, pt |-> 18],
     [op |-> "bold", line |-> 293, b |-> TRUE],
     [op |-> "rgb", line |-> 294, e |-> [k |-> "key", v |-> "white"]],
     [op |-> "add_textbox", line |-> 297, name |-> "desc_box", left |-> 2743200, top |-> 4389120, width |-> 7315200, height |-> 548640],
     [op |-> "bind", line |-> 298, name |-> "desc_frame"],
     [op |-> "clear", line |-> 299],
     [op |-> "para", line |-> 300, idx |-> 0],
     [op |-> "text", line |-> 301, e |-> [k |-> "item", v |-> 3]],
     [op |-> "size", line |-> 302, pt |-> 16],
     [op |-> "rgb", line |-> 303, e |-> [k |-> "key", v |-> "light_gray"]],
     [op |-> "iter", line |-> 274, list |-> "metrics", i |-> 3],
     [op |-> "add_textbox", line |-> 276, name |-> "abbr_box", left |-> 914400, top |-> 5120640, width |-> 1371600, height |-> 731520],
     [op |-> "bind", line |-> 277, name |-> "abbr_frame"],
     [op |-> "clear", line |-> 278],
     [op |-> "para", line |-> 279, idx |-> 0],
     [op |-> "text", line |-> 280, e |-> [k |-> "item", v |-> 1]],
     [op |-> "size", line |-> 281, pt |-> 24],
     [op |-> "bold", line |-> 282, b |-> TRUE],
     [op |-> "rgb", line |-> 283, e |-> [k |-> "item", v |-> 4]],
     [op |-> "align", line |-> 284, a |-> "CENTER"],
     [op |-> "add_textbox", line |-> 287, name |-> "name_box", left |-> 2743200, top |-> 5120640, width |-> 3657600, height |-> 365760],
     [op |-> "bind", line |-> 288, name |-> "name_frame"],
     [op |-> "clear", line |-> 289],
     [op |-> "para", line |-> 290, idx |-> 0],
     [op |-> "text", line |-> 291, e |-> [k |-> "item", v |-> 2]],
     [op |-> "size", line |-> 292, pt |-> 18],
     [op |-> "bold", line |-> 293, b |-> TRUE],
     [op |-> "rgb", line |-> 294, e |-> [k |-> "key", v |-> "white"]],
     [op |-> "add_textbox", line |-> 297, name |-> "desc_box", left |-> 2743200, top |-> 5486400, width |-> 7315200, height |-> 548640],
     [op |-> "bind", line |-> 298, name |-> "desc_frame"],
     [op |-> "clear", line |-> 299],
     [op |-> "para", line |-> 300, idx |-> 0],
     [op |-> "text", line |-> 301, e |-> [k |-> "item", v |-> 3]],
     [op |-> "size", line |-> 302, pt |-> 16],
     [op |-> "rgb", line |-> 303, e |-> [k |-> "key", v |-> "light_gray"]],
     [op |-> "endfor", line |-> 274, list |-> "metrics"],
     [op |-> "notes_slide", line |-> 306],
     [op |-> "bind", line |-> 307, name |-> "notes_text_frame"],
     [op |-> "notes_text", line |-> 308, e |-> [k |-> "str", v |-> "Use hand gestures to show timeline progression. Emphasize that Lighthouse measures user experience, not just speed."]],
     [op |-> "return", line |-> 308] >>

\* create_approach_slide(prs, colors), source lines 310-378: one record per executed
\* statement, the for loops over literal lists unrolled.
create_approach_slide ==
  << [op |-> "layout", line |-> 312, idx |-> 6],
     [op |-> "add_slide", line |-> 313],
     [op |-> "bind", line |-> 316, name |-> "background"],
     [op |-> "bind", line |-> 317, name |-> "fill"],
     [op |-> "solid", line |-> 318],
     [op |-> "bg_rgb", line |-> 319, e |-> [k |-> "key", v |-> "green_gradient_start"]],
     [op |-> "add_textbox", line |-> 322, name |-> "title_box", left |-> 914400, top |-> 457200, width |-> 10360152, height |-> 914400],
     [op |-> "bind", line |-> 323, name |-> "title_frame"],
     [op |-> "clear", line |-> 324],
     [op |-> "para", line |-> 325, idx |-> 0],
     [op |-> "text", line |-> 326, e |-> [k |-> "str", v |-> "Measure {U+2192} Analyze {U+2192} Optimize"]],
     [op |-> "size", line |-> 327, pt |-> 36],
     [op |-> "bold", line |-> 328, b |-> TRUE],
     [op |-> "font", line |-> 329, e |-> [k |-> "str", v |-> "Roboto"]],
     [op |-> "rgb", line |-> 330, e |-> [k |-> "key", v |-> "white"]],
     [op |-> "align", line |-> 331, a |-> "CENTER"],
     [op |-> "list", line |-> 334, name |-> "steps", items |-> <<<<[k |-> "str", v |-> "1"], [k |-> "str", v |-> "Measure"], [k |-> "str", v |-> "Lighthouse CI baseline"], [k |-> "key", v |-> "lighthouse_blue"]>>,
        <<[k |-> "str", v |-> "2"], [k |-> "str", v |-> "Analyze"], [k |-> "str", v |-> "Bundle analysis & bottleneck identification"], [k |-> "key", v |-> "orange_gradient_start"]>>,
        <<[k |-> "str", v |-> "3"], [k |-> "str", v |-> "Optimize"], [k |-> "str", v |-> "Targeted interventions"], [k |-> "key", v |-> "performance_green"]>>>>],
     [op |-> "iter", line |-> 340, list |-> "steps", i |-> 0],
     [op |-> "bind", line |-> 341, name |-> "x_pos"],
     [op |-> "add_textbox", line |-> 344, name |-> "num_box", left |-> 914400, top |-> 2286000, width |-> 914400, height |-> 914400],
     [op |-> "bind", line |-> 345, name |-> "num_frame"],
     [op |-> "clear", line |-> 346],
     [op |-> "para", line |-> 347, idx |-> 0],
     [op |-> "text", line |-> 348, e |-> [k |-> "item", v |-> 1]],
     [op |-> "size", line |-> 349, pt |-> 48],
     [op |-> "bold", line |-> 350, b |-> TRUE],
     [op |-> "rgb", line |-> 351, e |-> [k |-> "item", v |-> 4]],
     [op |-> "align", line |-> 352, a |-> "CENTER"],
     [op |-> "add_textbox", line |-> 355, name |-> "title_box", left |-> 914400, top |-> 3474720, width |-> 2743200, height |-> 548640],
     [op |-> "bind", line |-> 356, name |-> "title_frame"],
     [op |-> "clear", line |-> 357],
     [op |-> "para", line |-> 358, idx |-> 0],
     [op |-> "text", line |-> 359, e |-> [k |-> "item", v |-> 2]],
     [op |-> "size", line |-> 360, pt |-> 20],
     [op |-> "bold", line |-> 361, b |-> TRUE],
     [op |-> "rgb", line |-> 362, e |-> [k |-> "key", v |-> "white"]],
     [op |-> "align", line |-> 363, a |-> "CENTER"],
     [op |-> "add_textbox", line |-> 366, name |-> "desc_box", left |-> 914400, top |-> 4206240, width |-> 2743200, height |-> 914400],
     [op |-> "bind", line |-> 367, name |-> "desc_frame"],
     [op |-> "clear", line |-> 368],
     [op |-> "para", line |-> 369, idx |-> 0],
     [op |-> "text", line |-> 370, e |-> [k |-> "item", v |-> 3]],
     [op |-> "size", line |-> 371, pt |-> 14],
     [op |-> "rgb", line |-> 372, e |-> [k |-> "key", v |-> "light_gray"]],
     [op |-> "align", line |-> 373, a |-> "CENTER"],
     [op |-> "iter", line |-> 340, list |-> "steps", i |-> 1],
     [op |-> "bind", line |-> 341, name |-> "x_pos"],
     [op |-> "add_textbox", line |-> 344, name |-> "num_box", left |-> 4389120, top |-> 2286000, width |-> 914400, height |-> 914400],
     [op |-> "bind", line |-> 345, name |-> "num_frame"],
     [op |-> "clear", line |-> 346],
     [op |-> "para", line |-> 347, idx |-> 0],
     [op |-> "text", line |-> 348, e |-> [k |-> "item", v |-> 1]],
     [op |-> "size", line |-> 349, pt |-> 48],
     [op |-> "bold", line |-> 350, b |-> TRUE],
     [op |-> "rgb", line |-> 351, e |-> [k |-> "item", v |-> 4]],
     [op |-> "align", line |-> 352, a |-> "CENTER"],
     [op |-> "add_textbox", line |-> 355, name |-> "title_box", left |-> 4389120, top |-> 3474720, width |-> 2743200, height |-> 548640],
     [op |-> "bind", line |-> 356, name |-> "title_frame"],
     [op |-> "clear", line |-> 357],
     [op |-> "para", line |-> 358, idx |-> 0],
     [op |-> "text", line |-> 359, e |-> [k |-> "item", v |-> 2]],
     [op |-> "size", line |-> 360, pt |-> 20],
     [op |-> "bold", line |-> 361, b |-> TRUE],
     [op |-> "rgb", line |-> 362, e |-> [k |-> "key", v |-> "white"]],
     [op |-> "align", line |-> 363, a |-> "CENTER"],
     [op |-> "add_textbox", line |-> 366, name |-> "desc_box", left |-> 4389120, top |-> 4206240, width |-> 2743200, height |-> 914400],
     [op |-> "bind", line |-> 367, name |-> "desc_frame"],
     [op |-> "clear", line |-> 368],
     [op |-> "para", line |-> 369, idx |-> 0],
     [op |-> "text", line |-> 370, e |-> [k |-> "item", v |-> 3]],
     [op |-> "size", line |-> 371, pt |-> 14],
     [op |-> "rgb", line |-> 372, e |-> [k |-> "key", v |-> "light_gray"]],
     [op |-> "align", line |-> 373, a |-> "CENTER"],
     [op |-> "iter", line |-> 340, list |-> "steps", i |-> 2],
     [op |-> "bind", line |-> 341, name |-> "x_pos"],
     [op |-> "add_textbox", line |-> 344, name |-> "num_box", left |-> 7863840, top |-> 2286000, width |-> 914400, height |-> 914400],
     [op |-> "bind", line |-> 345, name |-> "num_frame"],
     [op |-> "clear", line |-> 346],
     [op |-> "para", line |-> 347, idx |-> 0],
     [op |-> "text", line |-> 348, e |-> [k |-> "item", v |-> 1]],
     [op |-> "size", line |-> 349, pt |-> 48],
     [op |-> "bold", line |-> 350, b |-> TRUE],
     [op |-> "rgb", line |-> 351, e |-> [k |-> "item", v |-> 4]],
     [op |-> "align", line |-> 352, a |-> "CENTER"],
     [op |-> "add_textbox", line |-> 355, name |-> "title_box", left |-> 7863840, top |-> 3474720, width |-> 2743200, height |-> 548640],
     [op |-> "bind", line |-> 356, name |-> "title_frame"],
     [op |-> "clear", line |-> 357],
     [op |-> "para", line |-> 358, idx |-> 0],
     [op |-> "text", line |-> 359, e |-> [k |-> "item", v |-> 2]],
     [op |-> "size", line |-> 360, pt |-> 20],
     [op |-> "bold", line |-> 361, b |-> TRUE],
     [op |-> "rgb", line |-> 362, e |-> [k |-> "key", v |-> "white"]],
     [op |-> "align", line |-> 363, a |-> "CENTER"],
     [op |-> "add_textbox", line |-> 366, name |-> "desc_box", left |-> 7863840, top |-> 4206240, width |-> 2743200, height |-> 914400],
     [op |-> "bind", line |-> 367, name |-> "desc_frame"],
     [op |-> "clear", line |-> 368],
     [op |-> "para", line |-> 369, idx |-> 0],
     [op |-> "text", line |-> 370, e |-> [k |-> "item", v |-> 3]],
     [op |-> "size", line |-> 371, pt |-> 14],
     [op |-> "rgb", line |-> 372, e |-> [k |-> "key", v |-> "light_gray"]],
     [op |-> "align", line |-> 373, a |-> "CENTER"],
     [op |-> "endfor", line |-> 340, list |-> "steps"],
     [op |-> "notes_slide", line |-> 376],
     [op |-> "bind", line |-> 377, name |-> "notes_text_frame"],
     [op |-> "notes_text", line |-> 378, e |-> [k |-> "str", v |-> "'No optimization without measurement.' 'We use Lighthouse CI to make performance a first-class citizen.'"]],
     [op |-> "return", line |-> 378] >>

\* create_lazy_loading_slide(prs, colors), source lines 380-436: one record per executed
\* statement, the for loops over literal lists unrolled.
create_lazy_loading_slide ==
  << [op |-> "layout", line |-> 382, idx |-> 6],
     [op |-> "add_slide", line |-> 383],
     [op |-> "bind", line |-> 386, name |-> "background"],
     [op |-> "bind", line |-> 387, name |-> "fill"],
     [op |-> "solid", line |-> 388],
     [op |-> "bg_rgb", line |-> 389, e |-> [k |-> "key", v |-> "orange_gradient_start"]],
     [op |-> "add_textbox", line |-> 392, name |-> "title_box", left |-> 914400, top |-> 457200, width |-> 10360152, height |-> 914400],
     [op |-> "bind", line |-> 393, name |-> "title_frame"],
     [op |-> "clear", line |-> 394],
     [op |-> "para", line |-> 395, idx |-> 0],
     [op |-> "text", line |-> 396, e |-> [k |-> "str", v |-> "Lazy Loading: Load Only What You Need"]],
     [op |-> "size", line |-> 397, pt |-> 36],
     [op |-> "bold", line |-> 398, b |-> TRUE],
     [op |-> "font", line |-> 399, e |-> [k |-> "str", v |-> "Roboto"]],
     [op |-> "rgb", line |-> 400, e |-> [k |-> "key", v |-> "white"]],
     [op |-> "align", line |-> 401, a |-> "CENTER"],
     [op |-> "add_textbox", line |-> 404, name |-> "before_box", left |-> 457200, top |-> 1828800, width |-> 5486400, height |-> 2286000],
     [op |-> "bind", line |-> 405, name |-> "before_frame"],
     [op |-> "clear", line |-> 406],
     [op |-> "para", line |-> 407, idx |-> 0],
     [op |-> "text", line |-> 408, e |-> [k |-> "str", v |-> "Before: Eager Loading\n\nimport { CommitteeFormBuilderComponent }\nfrom './committee-form-builder';"]],
     [op |-> "size", line |-> 409, pt |-> 14],
     [op |-> "rgb", line |-> 410, e |-> [k |-> "key", v |-> "light_gray"]],
     [op |-> "font", line |-> 411, e |-> [k |-> "str", v |-> "Courier New"]],
     [op |-> "add_textbox", line |-> 413, name |-> "after_box", left |-> 5943600, top |-> 1828800, width |-> 5486400, height |-> 2286000],
     [op |-> "bind", line |-> 414, name |-> "after_frame"],
     [op |-> "clear", line |-> 415],
     [op |-> "para", line |-> 416, idx |-> 0],
     [op |-> "text", line |-> 417, e |-> [k |-> "str", v |-> "After: Route-level Lazy Loading\n\n{\n  path: 'CommitteeFormBuilder/:id',\n  loadChildren: () => import('./features/committee-builder.module')\n    .then(m => m.CommitteeBuilderModule)\n}"]],
     [op |-> "size", line |-> 418, pt |-> 14],
     [op |-> "rgb", line |-> 419, e |-> [k |-> "key", v |-> "performance_green"]],
     [op |-> "font", line |-> 420, e |-> [k |-> "str", v |-> "Courier New"]],
     [op |-> "add_textbox", line |-> 423, name |-> "impact_box", left |-> 1828800, top |-> 4572000, width |-> 8531352, height |-> 1371600],
     [op |-> "bind", line |-> 424, name |-> "impact_frame"],
     [op |-> "clear", line |-> 425],
     [op |-> "para", line |-> 426, idx |-> 0],
     [op |-> "text", line |-> 427, e |-> [k |-> "str", v |-> "Impact: Initial bundle reduced by ~792KB {U+2022} TTI improved by ~2-3 seconds"]],
     [op |-> "size", line |-> 428, pt |-> 20],
     [op |-> "bold", line |-> 429, b |-> TRUE],
     [op |-> "rgb", line |-> 430, e |-> [k |-> "key", v |-> "orange_gradient_start"]],
     [op |-> "align", line |-> 431, a |-> "CENTER"],
     [op |-> "notes_slide", line |-> 434],
     [op |-> "bind", line |-> 435, name |-> "notes_text_frame"],
     [op |-> "notes_text", line |-> 436, e |-> [k |-> "str", v |-> "'We've already started this journey{U+2014}now we finish it.' Show the dramatic bundle size reduction."]],
     [op |-> "return", line |-> 436] >>

\* create_onpush_slide(prs, colors), source lines 438-496: one record per executed
\* statement, the for loops over literal lists unrolled.
create_onpush_slide ==
  << [op |-> "layout", line |-> 440, idx |-> 6],
     [op |-> "add_slide", line |-> 441],
     [op |-> "bind", line |-> 444, name |-> "background"],
     [op |-> "bind", line |-> 445, name |-> "fill"],
     [op |-> "solid", line |-> 446],
     [op |-> "bg_rgb", line |-> 447, e |-> [k |-> "key", v |-> "purple_gradient_start"]],
     [op |-> "add_textbox", line |-> 450, name |-> "title_box", left |-> 914400, top |-> 457200, width |-> 10360152, height |-> 914400],
     [op |-> "bind", line |-> 451, name |-> "title_frame"],
     [op |-> "clear", line |-> 452],
     [op |-> "para", line |-> 453, idx |-> 0],
     [op |-> "text", line |-> 454, e |-> [k |-> "str", v |-> "OnPush: Smarter Change Detection"]],
     [op |-> "size", line |-> 455, pt |-> 36],
     [op |-> "bold", line |-> 456, b |-> TRUE],
     [op |-> "font", line |-> 457, e |-> [k |-> "str", v |-> "Roboto"]],
     [op |-> "rgb", line |-> 458, e |-> [k |-> "key", v |-> "white"]],
     [op |-> "align", line |-> 459, a |-> "CENTER"],
     [op |-> "add_textbox", line |-> 462, name |-> "problem_box", left |-> 914400, top |-> 1828800, width |-> 10360152, height |-> 731520],
     [op |-> "bind", line |-> 463, name |-> "problem_frame"],
     [op |-> "clear", line |-> 464],
     [op |-> "para", line |-> 465, idx |-> 0],
     [op |-> "text", line |-> 466, e |-> [k |-> "str", v |-> "The Problem: Every HTTP request triggers change detection across the entire component tree"]],
     [op |-> "size", line |-> 467, pt |-> 18],
     [op |-> "rgb", line |-> 468, e |-> [k |-> "key", v |-> "light_gray"]],
     [op |-> "align", line |-> 469, a |-> "CENTER"],
     [op |-> "add_textbox", line |-> 472, name |-> "code_box", left |-> 1828800, top |-> 2743200, width |-> 8531352, height |-> 1371600],
     [op |-> "bind", line |-> 473, name |-> "code_frame"],
     [op |-> "clear", line |-> 474],
     [op |-> "para", line |-> 475, idx |-> 0],
     [op |-> "text", line |-> 476, e |-> [k |-> "str", v |-> "@Component({\n  selector: 'app-dashboard',\n  templateUrl: './dashboard.component.html',\n  changeDetection: ChangeDetectionStrategy.OnPush\n})"]],
     [op |-> "size", line |-> 477, pt |-> 14],
     [op |-> "rgb", line |-> 478, e |-> [k |-> "key", v |-> "lighthouse_blue"]],
     [op |-> "font", line |-> 479, e |-> [k |-> "str", v |-> "Courier New"]],
     [op |-> "align", line |-> 480, a |-> "CENTER"],
     [op |-> "add_textbox", line |-> 483, name |-> "impact_box", left |-> 1828800, top |-> 4572000, width |-> 8531352, height |-> 914400],
     [op |-> "bind", line |-> 484, name |-> "impact_frame"],
     [op |-> "clear", line |-> 485],
     [op |-> "para", line |-> 486, idx |-> 0],
     [op |-> "text", line |-> 487, e |-> [k |-> "str", v |-> "Impact: 40-60% reduction in change detection cycles {U+2022} TTI improvement: ~1-2 seconds"]],
     [op |-> "size", line |-> 488, pt |-> 18],
     [op |-> "bold", line |-> 489, b |-> TRUE],
     [op |-> "rgb", line |-> 490, e |-> [k |-> "key", v |-> "performance_green"]],
     [op |-> "align", line |-> 491, a |-> "CENTER"],
     [op |-> "notes_slide", line |-> 494],
     [op |-> "bind", line |-> 495, name |-> "notes_text_frame"],
     [op |-> "notes_text", line |-> 496, e |-> [k |-> "str", v |-> "'Not every component needs this{U+2014}start with leaf components.' Show the dramatic reduction in CPU usage."]],
     [op |-> "return", line |-> 496] >>

\* create_font_loading_slide(prs, colors), source lines 498-577: one record per executed
\* statement, the for loops over literal lists unrolled.
create_font_loading_slide ==
  << [op |-> "layout", line |-> 500, idx |-> 6],
     [op |-> "add_slide", line |-> 501],
     [op |-> "bind", line |-> 504, name |-> "background"],
     [op |-> "bind", line |-> 505, name |-> "fill"],
     [op |-> "solid", line |-> 506],
     [op |-> "bg_rgb", line |-> 507, e |-> [k |-> "key", v |-> "teal_gradient_start"]],
     [op |-> "add_textbox", line |-> 510, name |-> "title_box", left |-> 914400, top |-> 457200, width |-> 10360152, height |-> 914400],
     [op |-> "bind", line |-> 511, name |-> "title_frame"],
     [op |-> "clear", line |-> 512],
     [op |-> "para", line |-> 513, idx |-> 0],
     [op |-> "text", line |-> 514, e |-> [k |-> "str", v |-> "Async Font Loading: Don't Block the Critical Path"]],
     [op |-> "size", line |-> 515, pt |-> 36],
     [op |-> "bold", line |-> 516, b |-> TRUE],
     [op |-> "font", line |-> 517, e |-> [k |-> "str", v |-> "Roboto"]],
     [op |-> "rgb", line |-> 518, e |-> [k |-> "key", v |-> "white"]],
     [op |-> "align", line |-> 519, a |-> "CENTER"],
     [op |-> "add_textbox", line |-> 522, name |-> "problem_box", left |-> 914400, top |-> 1828800, width |-> 10360152, height |-> 548640],
     [op |-> "bind", line |-> 523, name |-> "problem_frame"],
     [op |-> "clear", line |-> 524],
     [op |-> "para", line |-> 525, idx |-> 0],
     [op |-> "text", line |-> 526, e |-> [k |-> "str", v |-> "Current Problem: These block rendering!"]],
     [op |-> "size", line |-> 527, pt |-> 18],
     [op |-> "rgb", line |-> 528, e |-> [k |-> "key", v |-> "light_gray"]],
     [op |-> "align", line |-> 529, a |-> "CENTER"],
     [op |-> "add_textbox", line |-> 532, name |-> "problem_code_box", left |-> 1828800, top |-> 2560320, width |-> 8531352, height |-> 731520],
     [op |-> "bind", line |-> 533, name |-> "problem_code_frame"],
     [op |-> "clear", line |-> 534],
     [op |-> "para", line |-> 535, idx |-> 0],
     [op |-> "text", line |-> 536, e |-> [k |-> "str", v |-> "<link href=\"https://fonts.googleapis.com/css2?family=Roboto:wght@300;400;500&display=swap\" rel=\"stylesheet\">"]],
     [op |-> "size", line |-> 537, pt |-> 12],
     [op |-> "rgb", line |-> 538, e |-> [k |-> "rgb", v |-> <<255, 100, 100>>]],
     [op |-> "font", line |-> 539, e |-> [k |-> "str", v |-> "Courier New"]],
     [op |-> "align", line |-> 540, a |-> "CENTER"],
     [op |-> "add_textbox", line |-> 543, name |-> "solution_box", left |-> 914400, top |-> 3657600, width |-> 10360152, height |-> 548640],
     [op |-> "bind", line |-> 544, name |-> "solution_frame"],
     [op |-> "clear", line |-> 545],
     [op |-> "para", line |-> 546, idx |-> 0],
     [op |-> "text", line |-> 547, e |-> [k |-> "str", v |-> "Optimized Approach: Preconnect + Async Load"]],
     [op |-> "size", line |-> 548, pt |-> 18],
     [op |-> "rgb", line |-> 549, e |-> [k |-> "key", v |-> "performance_green"]],
     [op |-> "align", line |-> 550, a |-> "CENTER"],
     [op |-> "add_textbox", line |-> 553, name |-> "solution_code_box", left |-> 914400, top |-> 4389120, width |-> 10360152, height |-> 1097280],
     [op |-> "bind", line |-> 554, name |-> "solution_code_frame"],
     [op |-> "clear", line |-> 555],
     [op |-> "para", line |-> 556, idx |-> 0],
     [op |-> "text", line |-> 557, e |-> [k |-> "str", v |-> "<!-- Preconnect to speed up DNS/TCP/TLS -->\n<link rel=\"preconnect\" href=\"https://fonts.googleapis.com\">\n<link rel=\"preconnect\" href=\"https://fonts.gstatic.com\" crossorigin>\n\n<!-- Async load with font-display: swap -->\n<link href=\"https://fonts.googleapis.com/css2?family=Roboto:wght@300;400;500&display=swap\"\n      rel=\"stylesheet\" media=\"print\" onload=\"this.media='all'\">"]],
     [op |-> "size", line |-> 558, pt |-> 10],
     [op |-> "rgb", line |-> 559, e |-> [k |-> "key", v |-> "accent_cyan"]],
     [op |-> "font", line |-> 560, e |-> [k |-> "str", v |-> "Courier New"]],
     [op |-> "align", line |-> 561, a |-> "CENTER"],
     [op |-> "add_textbox", line |-> 564, name |-> "impact_box", left |-> 1828800, top |-> 5669280, width |-> 8531352, height |-> 731520],
     [op |-> "bind", line |-> 565, name |-> "impact_frame"],
     [op |-> "clear", line |-> 566],
     [op |-> "para", line |-> 567, idx |-> 0],
     [op |-> "text", line |-> 568, e |-> [k |-> "str", v |-> "Impact: FCP improvement of 400-800ms {U+2022} Better perceived performance"]],
     [op |-> "size", line |-> 569, pt |-> 16],
     [op |-> "bold", line |-> 570, b |-> TRUE],
     [op |-> "rgb", line |-> 571, e |-> [k |-> "key", v |-> "orange_gradient_start"]],
     [op |-> "align", line |-> 572, a |-> "CENTER"],
     [op |-> "notes_slide", line |-> 575],
     [op |-> "bind", line |-> 576, name |-> "notes_text_frame"],
     [op |-> "notes_text", line |-> 577, e |-> [k |-> "str", v |-> "Show the dramatic difference between blocking and non-blocking font loading. Emphasize the FCP improvement."]],
     [op |-> "return", line |-> 577] >>

\* create_material_modules_slide(prs, colors), source lines 579-647: one record per executed
\* statement, the for loops over literal lists unrolled.
create_material_modules_slide ==
  << [op |-> "layout", line |-> 581, idx |-> 6],
     [op |-> "add_slide", line |-> 582],
     [op |-> "bind", line |-> 585, name |-> "background"],
     [op |-> "bind", line |-> 586, name |-> "fill"],
     [op |-> "solid", line |-> 587],
     [op |-> "bg_rgb", line |-> 588, e |-> [k |-> "key", v |-> "indigo_gradient_start"]],
     [op |-> "add_textbox", line |-> 591, name |-> "title_box", left |-> 914400, top |-> 457200, width |-> 10360152, height |-> 914400],
     [op |-> "bind", line |-> 592, name |-> "title_frame"],
     [op |-> "clear", line |-> 593],
     [op |-> "para", line |-> 594, idx |-> 0],
     [op |-> "text", line |-> 595, e |-> [k |-> "str", v |-> "Refactor SharedModule: Import Only What You Use"]],
     [op |-> "size", line |-> 596, pt |-> 36],
     [op |-> "bold", line |-> 597, b |-> TRUE],
     [op |-> "font", line |-> 598, e |-> [k |-> "str", v |-> "Roboto"]],
     [op |-> "rgb", line |-> 599, e |-> [k |-> "key", v |-> "white"]],
     [op |-> "align", line |-> 600, a |-> "CENTER"],
     [op |-> "add_textbox", line |-> 603, name |-> "problem_box", left |-> 914400, top |-> 1828800, width |-> 10360152, height |-> 548640],
     [op |-> "bind", line |-> 604, name |-> "problem_frame"],
     [op |-> "clear", line |-> 605],
     [op |-> "para", line |-> 606, idx |-> 0],
     [op |-> "text", line |-> 607, e |-> [k |-> "str", v |-> "The Problem: SharedModule imports and exports 25+ Material modules"]],
     [op |-> "size", line |-> 608, pt |-> 18],
     [op |-> "rgb", line |-> 609, e |-> [k |-> "key", v |-> "light_gray"]],
     [op |-> "align", line |-> 610, a |-> "CENTER"],
     [op |-> "add_textbox", line |-> 613, name |-> "code_box", left |-> 1828800, top |-> 2560320, width |-> 8531352, height |-> 1371600],
     [op |-> "bind", line |-> 614, name |-> "code_frame"],
     [op |-> "clear", line |-> 615],
     [op |-> "para", line |-> 616, idx |-> 0],
     [op |-> "text", line |-> 617, e |-> [k |-> "str", v |-> "// shared.module.ts - Importing EVERYTHING\nimports: [\n  MatDialogModule, MatProgressSpinnerModule, MatIconModule,\n  MatCardModule, MatDatepickerModule, MatFormFieldModule,\n  // ... 20 more modules\n]"]],
     [op |-> "size", line |-> 618, pt |-> 12],
     [op |-> "rgb", line |-> 619, e |-> [k |-> "rgb", v |-> <<255, 100, 100>>]],
     [op |-> "font", line |-> 620, e |-> [k |-> "str", v |-> "Courier New"]],
     [op |-> "align", line |-> 621, a |-> "CENTER"],
     [op |-> "add_textbox", line |-> 624, name |-> "solution_box", left |-> 914400, top |-> 4114800, width |-> 10360152, height |-> 548640],
     [op |-> "bind", line |-> 625, name |-> "solution_frame"],
     [op |-> "clear", line |-> 626],
     [op |-> "para", line |-> 627, idx |-> 0],
     [op |-> "text", line |-> 628, e |-> [k |-> "str", v |-> "Optimized Approach: Feature-specific imports only"]],
     [op |-> "size", line |-> 629, pt |-> 18],
     [op |-> "rgb", line |-> 630, e |-> [k |-> "key", v |-> "performance_green"]],
     [op |-> "align", line |-> 631, a |-> "CENTER"],
     [op |-> "add_textbox", line |-> 634, name |-> "impact_box", left |-> 1828800, top |-> 5029200, width |-> 8531352, height |-> 731520],
     [op |-> "bind", line |-> 635, name |-> "impact_frame"],
     [op |-> "clear", line |-> 636],
     [op |-> "para", line |-> 637, idx |-> 0],
     [op |-> "text", line |-> 638, e |-> [k |-> "str", v |-> "Impact: ~200-300KB reduction in vendor bundle {U+2022} Better tree-shaking"]],
     [op |-> "size", line |-> 639, pt |-> 16],
     [op |-> "bold", line |-> 640, b |-> TRUE],
     [op |-> "rgb", line |-> 641, e |-> [k |-> "key", v |-> "orange_gradient_start"]],
     [op |-> "align", line |-> 642, a |-> "CENTER"],
     [op |-> "notes_slide", line |-> 645],
     [op |-> "bind", line |-> 646, name |-> "notes_text_frame"],
     [op |-> "notes_text", line |-> 647, e |-> [k |-> "str", v |-> "Show the dramatic difference in bundle size. Emphasize that this is about importing only what you actually use."]],
     [op |-> "return", line |-> 647] >>

\* create_demo_slide(prs, colors), source lines 649-705: one record per executed
\* statement, the for loops over literal lists unrolled.
create_demo_slide ==
  << [op |-> "layout", line |-> 651, idx |-> 6],
     [op |-> "add_slide", line |-> 652],
     [op |-> "bind", line |-> 655, name |-> "background"],
     [op |-> "bind", line |-> 656, name |-> "fill"],
     [op |-> "solid", line |-> 657],
     [op |-> "bg_rgb", line |-> 658, e |-> [k |-> "key", v |-> "dark_gradient_start"]],
     [op |-> "add_textbox", line |-> 661, name |-> "title_box", left |-> 914400, top |-> 457200, width |-> 10360152, height |-> 914400],
     [op |-> "bind", line |-> 662, name |-> "title_frame"],
     [op |-> "clear", line |-> 663],
     [op |-> "para", line |-> 664, idx |-> 0],
     [op |-> "text", line |-> 665, e |-> [k |-> "str", v |-> "Watch the Magic Happen"]],
     [op |-> "size", line |-> 666, pt |-> 36],
     [op |-> "bold", line |-> 667, b |-> TRUE],
     [op |-> "font", line |-> 668, e |-> [k |-> "str", v |-> "Roboto"]],
     [op |-> "rgb", line |-> 669, e |-> [k |-> "key", v |-> "white"]],
     [op |-> "align", line |-> 670, a |-> "CENTER"],
     [op |-> "add_textbox", line |-> 673, name |-> "demo_box", left |-> 1828800, top |-> 1828800, width |-> 8531352, height |-> 2743200],
     [op |-> "bind", line |-> 674, name |-> "demo_frame"],
     [op |-> "clear", line |-> 675],
     [op |-> "list", line |-> 677, name |-> "demo_steps", items |-> <<<<[k |-> "str", v |-> "1. Here's the current dashboard{U+2014}watch the metrics"]>>,
        <<[k |-> "str", v |-> "2. I'll apply OnPush to just 3 components"]>>,
        <<[k |-> "str", v |-> "3. Rebuild and re-run Lighthouse"]>>,
        <<[k |-> "str", v |-> "4. Notice the TTI dropped from 8.2s to 5.7s"]>>>>],
     [op |-> "iter", line |-> 684, list |-> "demo_steps", i |-> 0],
     [op |-> "para_or_add", line |-> 685, idx |-> 0],
     [op |-> "text", line |-> 686, e |-> [k |-> "item", v |-> 1]],
     [op |-> "size", line |-> 687, pt |-> 18],
     [op |-> "rgb", line |-> 688, e |-> [k |-> "key", v |-> "light_gray"]],
     [op |-> "align", line |-> 689, a |-> "CENTER"],
     [op |-> "iter", line |-> 684, list |-> "demo_steps", i |-> 1],
     [op |-> "para_or_add", line |-> 685, idx |-> 1],
     [op |-> "text", line |-> 686, e |-> [k |-> "item", v |-> 1]],
     [op |-> "size", line |-> 687, pt |-> 18],
     [op |-> "rgb", line |-> 688, e |-> [k |-> "key", v |-> "light_gray"]],
     [op |-> "align", line |-> 689, a |-> "CENTER"],
     [op |-> "iter", line |-> 684, list |-> "demo_steps", i |-> 2],
     [op |-> "para_or_add", line |-> 685, idx |-> 2],
     [op |-> "text", line |-> 686, e |-> [k |-> "item", v |-> 1]],
     [op |-> "size", line |-> 687, pt |-> 18],
     [op |-> "rgb", line |-> 688, e |-> [k |-> "key", v |-> "light_gray"]],
     [op |-> "align", line |-> 689, a |-> "CENTER"],
     [op |-> "iter", line |-> 684, list |-> "demo_steps", i |-> 3],
     [op |-> "para_or_add", line |-> 685, idx |-> 3],
     [op |-> "text", line |-> 686, e |-> [k |-> "item", v |-> 1]],
     [op |-> "size", line |-> 687, pt |-> 18],
     [op |-> "rgb", line |-> 688, e |-> [k |-> "key", v |-> "light_gray"]],
     [op |-> "align", line |-> 689, a |-> "CENTER"],
     [op |-> "endfor", line |-> 684, list |-> "demo_steps"],
     [op |-> "add_textbox", line |-> 692, name |-> "perf_box", left |-> 2743200, top |-> 5029200, width |-> 6702552, height |-> 914400],
     [op |-> "bind", line |-> 693, name |-> "perf_frame"],
     [op |-> "clear", line |-> 694],
     [op |-> "para", line |-> 695, idx |-> 0],
     [op |-> "text", line |-> 696, e |-> [k |-> "str", v |-> "TTI: 8.2s {U+2192} 5.7s"]],
     [op |-> "size", line |-> 697, pt |-> 24],
     [op |-> "bold", line |-> 698, b |-> TRUE],
     [op |-> "rgb", line |-> 699, e |-> [k |-> "key", v |-> "performance_green"]],
     [op |-> "align", line |-> 700, a |-> "CENTER"],
     [op |-> "notes_slide", line |-> 703],
     [op |-> "bind", line |-> 704, name |-> "notes_text_frame"],
     [op |-> "notes_text", line |-> 705, e |-> [k |-> "str", v |-> "Have a backup video in case of technical difficulties. Show the dramatic improvement in real-time."]],
     [op |-> "return", line |-> 705] >>

\* create_results_slide(prs, colors), source lines 707-800: one record per executed
\* statement, the for loops over literal lists unrolled.
create_results_slide ==
  << [op |-> "layout", line |-> 709, idx |-> 6],
     [op |-> "add_slide", line |-> 710],
     [op |-> "bind", line |-> 713, name |-> "background"],
     [op |-> "bind", line |-> 714, name |-> "fill"],
     [op |-> "solid", line |-> 715],
     [op |-> "bg_rgb", line |-> 716, e |-> [k |-> "key", v |-> "success_gradient_start"]],
     [op |-> "add_textbox", line |-> 719, name |-> "title_box", left |-> 914400, top |-> 457200, width |-> 10360152, height |-> 914400],
     [op |-> "bind", line |-> 720, name |-> "title_frame"],
     [op |-> "clear", line |-> 721],
     [op |-> "para", line |-> 722, idx |-> 0],
     [op |-> "text", line |-> 723, e |-> [k |-> "str", v |-> "The Numbers Don't Lie"]],
     [op |-> "size", line |-> 724, pt |-> 36],
     [op |-> "bold", line |-> 725, b |-> TRUE],
     [op |-> "font", line |-> 726, e |-> [k |-> "str", v |-> "Roboto"]],
     [op |-> "rgb", line |-> 727, e |-> [k |-> "key", v |-> "white"]],
     [op |-> "align", line |-> 728, a |-> "CENTER"],
     [op |-> "list", line |-> 731, name |-> "results", items |-> <<<<[k |-> "str", v |-> "Performance Score"], [k |-> "str", v |-> "45"], [k |-> "str", v |-> "78"], [k |-> "str", v |-> "+73%"]>>,
        <<[k |-> "str", v |-> "FCP"], [k |-> "str", v |-> "2.8s"], [k |-> "str", v |-> "1.2s"], [k |-> "str", v |-> "-57%"]>>,
        <<[k |-> "str", v |-> "LCP"], [k |-> "str", v |-> "6.4s"], [k |-> "str", v |-> "2.3s"], [k |-> "str", v |-> "-64%"]>>,
        <<[k |-> "str", v |-> "TTI"], [k |-> "str", v |-> "8.2s"], [k |-> "str", v |-> "3.1s"], [k |-> "str", v |-> "-62%"]>>,
        <<[k |-> "str", v |-> "Bundle Size"], [k |-> "str", v |-> "4.47 MB"], [k |-> "str", v |-> "2.1 MB"], [k |-> "str", v |-> "-53%"]>>>>],
     [op |-> "list", line |-> 740, name |-> "headers", items |-> <<<<[k |-> "str", v |-> "Metric"]>>,
        <<[k |-> "str", v |-> "Before"]>>,
        <<[k |-> "str", v |-> "After"]>>,
        <<[k |-> "str", v |-> "Improvement"]>>>>],
     [op |-> "iter", line |-> 741, list |-> "headers", i |-> 0],
     [op |-> "add_textbox", line |-> 742, name |-> "header_box", left |-> 914400, top |-> 1828800, width |-> 2560320, height |-> 548640],
     [op |-> "bind", line |-> 743, name |-> "header_frame"],
     [op |-> "clear", line |-> 744],
     [op |-> "para", line |-> 745, idx |-> 0],
     [op |-> "text", line |-> 746, e |-> [k |-> "item", v |-> 1]],
     [op |-> "size", line |-> 747, pt |-> 16],
     [op |-> "bold", line |-> 748, b |-> TRUE],
     [op |-> "rgb", line |-> 749, e |-> [k |-> "key", v |-> "orange_gradient_start"]],
     [op |-> "align", line |-> 750, a |-> "CENTER"],
     [op |-> "iter", line |-> 741, list |-> "headers", i |-> 1],
     [op |-> "add_textbox", line |-> 742, name |-> "header_box", left |-> 3474720, top |-> 1828800, width |-> 2560320, height |-> 548640],
     [op |-> "bind", line |-> 743, name |-> "header_frame"],
     [op |-> "clear", line |-> 744],
     [op |-> "para", line |-> 745, idx |-> 0],
     [op |-> "text", line |-> 746, e |-> [k |-> "item", v |-> 1]],
     [op |-> "size", line |-> 747, pt |-> 16],
     [op |-> "bold", line |-> 748, b |-> TRUE],
     [op |-> "rgb", line |-> 749, e |-> [k |-> "key", v |-> "orange_gradient_start"]],
     [op |-> "align", line |-> 750, a |-> "CENTER"],
     [op |-> "iter", line |-> 741, list |-> "headers", i |-> 2],
     [op |-> "add_textbox", line |-> 742, name |-> "header_box", left |-> 6035040, top |-> 1828800, width |-> 2560320, height |-> 548640],
     [op |-> "bind", line |-> 743, name |-> "header_frame"],
     [op |-> "clear", line |-> 744],
     [op |-> "para", line |-> 745, idx |-> 0],
     [op |-> "text", line |-> 746, e |-> [k |-> "item", v |-> 1]],
     [op |-> "size", line |-> 747, pt |-> 16],
     [op |-> "bold", line |-> 748, b |-> TRUE],
     [op |-> "rgb", line |-> 749, e |-> [k |-> "key", v |-> "orange_gradient_start"]],
     [op |-> "align", line |-> 750, a |-> "CENTER"],
     [op |-> "iter", line |-> 741, list |-> "headers", i |-> 3],
     [op |-> "add_textbox", line |-> 742, name |-> "header_box", left |-> 8595359, top |-> 1828800, width |-> 2560320, height |-> 548640],
     [op |-> "bind", line |-> 743, name |-> "header_frame"],
     [op |-> "clear", line |-> 744],
     [op |-> "para", line |-> 745, idx |-> 0],
     [op |-> "text", line |-> 746, e |-> [k |-> "item", v |-> 1]],
     [op |-> "size", line |-> 747, pt |-> 16],
     [op |-> "bold", line |-> 748, b |-> TRUE],
     [op |-> "rgb", line |-> 749, e |-> [k |-> "key", v |-> "orange_gradient_start"]],
     [op |-> "align", line |-> 750, a |-> "CENTER"],
     [op |-> "endfor", line |-> 741, list |-> "headers"],
     [op |-> "iter", line |-> 753, list |-> "results", i |-> 0],
     [op |-> "bind", line |-> 754, name |-> "y_pos"],
     [op |-> "add_textbox", line |-> 757, name |-> "metric_box", left |-> 914400, top |-> 2560320, width |-> 2560320, height |-> 548640],
     [op |-> "bind", line |-> 758, name |-> "metric_frame"],
     [op |-> "clear", line |-> 759],
     [op |-> "para", line |-> 760, idx |-> 0],
     [op |-> "text", line |-> 761, e |-> [k |-> "item", v |-> 1]],
     [op |-> "size", line |-> 762, pt |-> 14],
     [op |-> "rgb", line |-> 763, e |-> [k |-> "key", v |-> "white"]],
     [op |-> "align", line |-> 764, a |-> "CENTER"],
     [op |-> "add_textbox", line |-> 767, name |-> "before_box", left |-> 3474720, top |-> 2560320, width |-> 2560320, height |-> 548640],
     [op |-> "bind", line |-> 768, name |-> "before_frame"],
     [op |-> "clear", line |-> 769],
     [op |-> "para", line |-> 770, idx |-> 0],
     [op |-> "text", line |-> 771, e |-> [k |-> "item", v |-> 2]],
     [op |-> "size", line |-> 772, pt |-> 14],
     [op |-> "rgb", line |-> 773, e |-> [k |-> "rgb", v |-> <<255, 100, 100>>]],
     [op |-> "align", line |-> 774, a |-> "CENTER"],
     [op |-> "add_textbox", line |-> 777, name |-> "after_box", left |-> 6035040, top |-> 2560320, width |-> 2560320, height |-> 548640],
     [op |-> "bind", line |-> 778, name |-> "after_frame"],
     [op |-> "clear", line |-> 779],
     [op |-> "para", line |-> 780, idx |-> 0],
     [op |-> "text", line |-> 781, e |-> [k |-> "item", v |-> 3]],
     [op |-> "size", line |-> 782, pt |-> 14],
     [op |-> "rgb", line |-> 783, e |-> [k |-> "key", v |-> "performance_green"]],
     [op |-> "align", line |-> 784, a |-> "CENTER"],
     [op |-> "add_textbox", line |-> 787, name |-> "improvement_box", left |-> 8595360, top |-> 2560320, width |-> 2560320, height |-> 548640],
     [op |-> "bind", line |-> 788, name |-> "improvement_frame"],
     [op |-> "clear", line |-> 789],
     [op |-> "para", line |-> 790, idx |-> 0],
     [op |-> "text", line |-> 791, e |-> [k |-> "item", v |-> 4]],
     [op |-> "size", line |-> 792, pt |-> 14],
     [op |-> "bold", line |-> 793, b |-> TRUE],
     [op |-> "rgb", line |-> 794, e |-> [k |-> "key", v |-> "accent_cyan"]],
     [op |-> "align", line |-> 795, a |-> "CENTER"],
     [op |-> "iter", line |-> 753, list |-> "results", i |-> 1],
     [op |-> "bind", line |-> 754, name |-> "y_pos"],
     [op |-> "add_textbox", line |-> 757, name |-> "metric_box", left |-> 914400, top |-> 3108960, width |-> 2560320, height |-> 548640],
     [op |-> "bind", line |-> 758, name |-> "metric_frame"],
     [op |-> "clear", line |-> 759],
     [op |-> "para", line |-> 760, idx |-> 0],
     [op |-> "text", line |-> 761, e |-> [k |-> "item", v |-> 1]],
     [op |-> "size", line |-> 762, pt |-> 14],
     [op |-> "rgb", line |-> 763, e |-> [k |-> "key", v |-> "white"]],
     [op |-> "align", line |-> 764, a |-> "CENTER"],
     [op |-> "add_textbox", line |-> 767, name |-> "before_box", left |-> 3474720, top |-> 3108960, width |-> 2560320, height |-> 548640],
     [op |-> "bind", line |-> 768, name |-> "before_frame"],
     [op |-> "clear", line |-> 769],
     [op |-> "para", line |-> 770, idx |-> 0],
     [op |-> "text", line |-> 771, e |-> [k |-> "item", v |-> 2]],
     [op |-> "size", line |-> 772, pt |-> 14],
     [op |-> "rgb", line |-> 773, e |-> [k |-> "rgb", v |-> <<255, 100, 100>>]],
     [op |-> "align", line |-> 774, a |-> "CENTER"],
     [op |-> "add_textbox", line |-> 777, name |-> "after_box", left |-> 6035040, top |-> 3108960, width |-> 2560320, height |-> 548640],
     [op |-> "bind", line |-> 778, name |-> "after_frame"],
     [op |-> "clear", line |-> 779],
     [op |-> "para", line |-> 780, idx |-> 0],
     [op |-> "text", line |-> 781, e |-> [k |-> "item", v |-> 3]],
     [op |-> "size", line |-> 782, pt |-> 14],
     [op |-> "rgb", line |-> 783, e |-> [k |-> "key", v |-> "performance_green"]],
     [op |-> "align", line |-> 784, a |-> "CENTER"],
     [op |-> "add_textbox", line |-> 787, name |-> "improvement_box", left |-> 8595360, top |-> 3108960, width |-> 2560320, height |-> 548640],
     [op |-> "bind", line |-> 788, name |-> "improvement_frame"],
     [op |-> "clear", line |-> 789],
     [op |-> "para", line |-> 790, idx |-> 0],
     [op |-> "text", line |-> 791, e |-> [k |-> "item", v |-> 4]],
     [op |-> "size", line |-> 792, pt |-> 14],
     [op |-> "bold", line |-> 793, b |-> TRUE],
     [op |-> "rgb", line |-> 794, e |-> [k |-> "key", v |-> "accent_cyan"]],
     [op |-> "align", line |-> 795, a |-> "CENTER"],
     [op |-> "iter", line |-> 753, list |-> "results", i |-> 2],
     [op |-> "bind", line |-> 754, name |-> "y_pos"],
     [op |-> "add_textbox", line |-> 757, name |-> "metric_box", left |-> 914400, top |-> 3657600, width |-> 2560320, height |-> 548640],
     [op |-> "bind", line |-> 758, name |-> "metric_frame"],
     [op |-> "clear", line |-> 759],
     [op |-> "para", line |-> 760, idx |-> 0],
     [op |-> "text", line |-> 761, e |-> [k |-> "item", v |-> 1]],
     [op |-> "size", line |-> 762, pt |-> 14],
     [op |-> "rgb", line |-> 763, e |-> [k |-> "key", v |-> "white"]],
     [op |-> "align", line |-> 764, a |-> "CENTER"],
     [op |-> "add_textbox", line |-> 767, name |-> "before_box", left |-> 3474720, top |-> 3657600, width |-> 2560320, height |-> 548640],
     [op |-> "bind", line |-> 768, name |-> "before_frame"],
     [op |-> "clear", line |-> 769],
     [op |-> "para", line |-> 770, idx |-> 0],
     [op |-> "text", line |-> 771, e |-> [k |-> "item", v |-> 2]],
     [op |-> "size", line |-> 772, pt |-> 14],
     [op |-> "rgb", line |-> 773, e |-> [k |-> "rgb", v |-> <<255, 100, 100>>]],
     [op |-> "align", line |-> 774, a |-> "CENTER"],
     [op |-> "add_textbox", line |-> 777, name |-> "after_box", left |-> 6035040, top |-> 3657600, width |-> 2560320, height |-> 548640],
     [op |-> "bind", line |-> 778, name |-> "after_frame"],
     [op |-> "clear", line |-> 779],
     [op |-> "para", line |-> 780, idx |-> 0],
     [op |-> "text", line |-> 781, e |-> [k |-> "item", v |-> 3]],
     [op |-> "size", line |-> 782, pt |-> 14],
     [op |-> "rgb", line |-> 783, e |-> [k |-> "key", v |-> "performance_green"]],
     [op |-> "align", line |-> 784, a |-> "CENTER"],
     [op |-> "add_textbox", line |-> 787, name |-> "improvement_box", left |-> 8595360, top |-> 3657600, width |-> 2560320, height |-> 548640],
     [op |-> "bind", line |-> 788, name |-> "improvement_frame"],
     [op |-> "clear", line |-> 789],
     [op |-> "para", line |-> 790, idx |-> 0],
     [op |-> "text", line |-> 791, e |-> [k |-> "item", v |-> 4]],
     [op |-> "size", line |-> 792, pt |-> 14],
     [op |-> "bold", line |-> 793, b |-> TRUE],
     [op |-> "rgb", line |-> 794, e |-> [k |-> "key", v |-> "accent_cyan"]],
     [op |-> "align", line |-> 795, a |-> "CENTER"],
     [op |-> "iter", line |-> 753, list |-> "results", i |-> 3],
     [op |-> "bind", line |-> 754, name |-> "y_pos"],
     [op |-> "add_textbox", line |-> 757, name |-> "metric_box", left |-> 914400, top |-> 4206240, width |-> 2560320, height |-> 548640],
     [op |-> "bind", line |-> 758, name |-> "metric_frame"],
     [op |-> "clear", line |-> 759],
     [op |-> "para", line |-> 760, idx |-> 0],
     [op |-> "text", line |-> 761, e |-> [k |-> "item", v |-> 1]],
     [op |-> "size", line |-> 762, pt |-> 14],
     [op |-> "rgb", line |-> 763, e |-> [k |-> "key", v |-> "white"]],
     [op |-> "align", line |-> 764, a |-> "CENTER"],
     [op |-> "add_textbox", line |-> 767, name |-> "before_box", left |-> 3474720, top |-> 4206240, width |-> 2560320, height |-> 548640],
     [op |-> "bind", line |-> 768, name |-> "before_frame"],
     [op |-> "clear", line |-> 769],
     [op |-> "para", line |-> 770, idx |-> 0],
     [op |-> "text", line |-> 771, e |-> [k |-> "item", v |-> 2]],
     [op |-> "size", line |-> 772, pt |-> 14],
     [op |-> "rgb", line |-> 773, e |-> [k |-> "rgb", v |-> <<255, 100, 100>>]],
     [op |-> "align", line |-> 774, a |-> "CENTER"],
     [op |-> "add_textbox", line |-> 777, name |-> "after_box", left |-> 6035040, top |-> 4206240, width |-> 2560320, height |-> 548640],
     [op |-> "bind", line |-> 778, name |-> "after_frame"],
     [op |-> "clear", line |-> 779],
     [op |-> "para", line |-> 780, idx |-> 0],
     [op |-> "text", line |-> 781, e |-> [k |-> "item", v |-> 3]],
     [op |-> "size", line |-> 782, pt |-> 14],
     [op |-> "rgb", line |-> 783, e |-> [k |-> "key", v |-> "performance_green"]],
     [op |-> "align", line |-> 784, a |-> "CENTER"],
     [op |-> "add_textbox", line |-> 787, name |-> "improvement_box", left |-> 8595360, top |-> 4206240, width |-> 2560320, height |-> 548640],
     [op |-> "bind", line |-> 788, name |-> "improvement_frame"],
     [op |-> "clear", line |-> 789],
     [op |-> "para", line |-> 790, idx |-> 0],
     [op |-> "text", line |-> 791, e |-> [k |-> "item", v |-> 4]],
     [op |-> "size", line |-> 792, pt |-> 14],
     [op |-> "bold", line |-> 793, b |-> TRUE],
     [op |-> "rgb", line |-> 794, e |-> [k |-> "key", v |-> "accent_cyan"]],
     [op |-> "align", line |-> 795, a |-> "CENTER"],
     [op |-> "iter", line |-> 753, list |-> "results", i |-> 4],
     [op |-> "bind", line |-> 754, name |-> "y_pos"],
     [op |-> "add_textbox", line |-> 757, name |-> "metric_box", left |-> 914400, top |-> 4754879, width |-> 2560320, height |-> 548640],
     [op |-> "bind", line |-> 758, name |-> "metric_frame"],
     [op |-> "clear", line |-> 759],
     [op |-> "para", line |-> 760, idx |-> 0],
     [op |-> "text", line |-> 761, e |-> [k |-> "item", v |-> 1]],
     [op |-> "size", line |-> 762, pt |-> 14],
     [op |-> "rgb", line |-> 763, e |-> [k |-> "key", v |-> "white"]],
     [op |-> "align", line |-> 764, a |-> "CENTER"],
     [op |-> "add_textbox", line |-> 767, name |-> "before_box", left |-> 3474720, top |-> 4754879, width |-> 2560320, height |-> 548640],
     [op |-> "bind", line |-> 768, name |-> "before_frame"],
     [op |-> "clear", line |-> 769],
     [op |-> "para", line |-> 770, idx |-> 0],
     [op |-> "text", line |-> 771, e |-> [k |-> "item", v |-> 2]],
     [op |-> "size", line |-> 772, pt |-> 14],
     [op |-> "rgb", line |-> 773, e |-> [k |-> "rgb", v |-> <<255, 100, 100>>]],
     [op |-> "align", line |-> 774, a |-> "CENTER"],
     [op |-> "add_textbox", line |-> 777, name |-> "after_box", left |-> 6035040, top |-> 4754879, width |-> 2560320, height |-> 548640],
     [op |-> "bind", line |-> 778, name |-> "after_frame"],
     [op |-> "clear", line |-> 779],
     [op |-> "para", line |-> 780, idx |-> 0],
     [op |-> "text", line |-> 781, e |-> [k |-> "item", v |-> 3]],
     [op |-> "size", line |-> 782, pt |-> 14],
     [op |-> "rgb", line |-> 783, e |-> [k |-> "key", v |-> "performance_green"]],
     [op |-> "align", line |-> 784, a |-> "CENTER"],
     [op |-> "add_textbox", line |-> 787, name |-> "improvement_box", left |-> 8595360, top |-> 4754879, width |-> 2560320, height |-> 548640],
     [op |-> "bind", line |-> 788, name |-> "improvement_frame"],
     [op |-> "clear", line |-> 789],
     [op |-> "para", line |-> 790, idx |-> 0],
     [op |-> "text", line |-> 791, e |-> [k |-> "item", v |-> 4]],
     [op |-> "size", line |-> 792, pt |-> 14],
     [op |-> "bold", line |-> 793, b |-> TRUE],
     [op |-> "rgb", line |-> 794, e |-> [k |-> "key", v |-> "accent_cyan"]],
     [op |-> "align", line |-> 795, a |-> "CENTER"],
     [op |-> "endfor", line |-> 753, list |-> "results"],
     [op |-> "notes_slide", line |-> 798],
     [op |-> "bind", line |-> 799, name |-> "notes_text_frame"],
     [op |-> "notes_text", line |-> 800, e |-> [k |-> "str", v |-> "'These aren't theoretical{U+2014}these are real improvements.' Emphasize the dramatic improvements."]],
     [op |-> "return", line |-> 800] >>

\* create_roadmap_slide(prs, colors), source lines 802-872: one record per executed
\* statement, the for loops over literal lists unrolled.
create_roadmap_slide ==
  << [op |-> "layout", line |-> 804, idx |-> 6],
     [op |-> "add_slide", line |-> 805],
     [op |-> "bind", line |-> 808, name |-> "background"],
     [op |-> "bind", line |-> 809, name |-> "fill"],
     [op |-> "solid", line |-> 810],
     [op |-> "bg_rgb", line |-> 811, e |-> [k |-> "key", v |-> "future_gradient_start"]],
     [op |-> "add_textbox", line |-> 814, name |-> "title_box", left |-> 914400, top |-> 457200, width |-> 10360152, height |-> 914400],
     [op |-> "bind", line |-> 815, name |-> "title_frame"],
     [op |-> "clear", line |-> 816],
     [op |-> "para", line |-> 817, idx |-> 0],
     [op |-> "text", line |-> 818, e |-> [k |-> "str", v |-> "The Journey Continues"]],
     [op |-> "size", line |-> 819, pt |-> 36],
     [op |-> "bold", line |-> 820, b |-> TRUE],
     [op |-> "font", line |-> 821, e |-> [k |-> "str", v |-> "Roboto"]],
     [op |-> "rgb", line |-> 822, e |-> [k |-> "key", v |-> "white"]],
     [op |-> "align", line |-> 823, a |-> "CENTER"],
     [op |-> "add_textbox", line |-> 826, name |-> "high_low_box", left |-> 914400, top |-> 1828800, width |-> 5029200, height |-> 1828800],
     [op |-> "bind", line |-> 827, name |-> "high_low_frame"],
     [op |-> "clear", line |-> 828],
     [op |-> "para", line |-> 829, idx |-> 0],
     [op |-> "text", line |-> 830, e |-> [k |-> "str", v |-> "High Impact / Low Effort (Do First)"]],
     [op |-> "size", line |-> 831, pt |-> 18],
     [op |-> "bold", line |-> 832, b |-> TRUE],
     [op |-> "rgb", line |-> 833, e |-> [k |-> "key", v |-> "performance_green"]],
     [op |-> "list", line |-> 835, name |-> "high_low_items", items |-> <<<<[k |-> "str", v |-> "{U+2022} Image lazy loading with loading='lazy'"]>>,
        <<[k |-> "str", v |-> "{U+2022} Remove unused polyfills"]>>,
        <<[k |-> "str", v |-> "{U+2022} Enable Brotli compression"]>>>>],
     [op |-> "iter", line |-> 841, list |-> "high_low_items", i |-> 0],
     [op |-> "para_or_add", line |-> 842, idx |-> 1],
     [op |-> "text", line |-> 843, e |-> [k |-> "item", v |-> 1]],
     [op |-> "size", line |-> 844, pt |-> 14],
     [op |-> "rgb", line |-> 845, e |-> [k |-> "key", v |-> "light_gray"]],
     [op |-> "iter", line |-> 841, list |-> "high_low_items", i |-> 1],
     [op |-> "para_or_add", line |-> 842, idx |-> 2],
     [op |-> "text", line |-> 843, e |-> [k |-> "item", v |-> 1]],
     [op |-> "size", line |-> 844, pt |-> 14],
     [op |-> "rgb", line |-> 845, e |-> [k |-> "key", v |-> "light_gray"]],
     [op |-> "iter", line |-> 841, list |-> "high_low_items", i |-> 2],
     [op |-> "para_or_add", line |-> 842, idx |-> 3],
     [op |-> "text", line |-> 843, e |-> [k |-> "item", v |-> 1]],
     [op |-> "size", line |-> 844, pt |-> 14],
     [op |-> "rgb", line |-> 845, e |-> [k |-> "key", v |-> "light_gray"]],
     [op |-> "endfor", line |-> 841, list |-> "high_low_items"],
     [op |-> "add_textbox", line |-> 848, name |-> "high_high_box", left |-> 5943600, top |-> 1828800, width |-> 5029200, height |-> 1828800],
     [op |-> "bind", line |-> 849, name |-> "high_high_frame"],
     [op |-> "clear", line |-> 850],
     [op |-> "para", line |-> 851, idx |-> 0],
     [op |-> "text", line |-> 852, e |-> [k |-> "str", v |-> "High Impact / High Effort (Plan Carefully)"]],
     [op |-> "size", line |-> 853, pt |-> 18],
     [op |-> "bold", line |-> 854, b |-> TRUE],
     [op |-> "rgb", line |-> 855, e |-> [k |-> "key", v |-> "accent_orange"]],
     [op |-> "list", line |-> 857, name |-> "high_high_items", items |-> <<<<[k |-> "str", v |-> "{U+2022} Migrate to standalone components (Angular 18+)"]>>,
        <<[k |-> "str", v |-> "{U+2022} Implement virtual scrolling for large lists"]>>,
        <<[k |-> "str", v |-> "{U+2022} Progressive Web App (PWA) features"]>>>>],
     [op |-> "iter", line |-> 863, list |-> "high_high_items", i |-> 0],
     [op |-> "para_or_add", line |-> 864, idx |-> 1],
     [op |-> "text", line |-> 865, e |-> [k |-> "item", v |-> 1]],
     [op |-> "size", line |-> 866, pt |-> 14],
     [op |-> "rgb", line |-> 867, e |-> [k |-> "key", v |-> "light_gray"]],
     [op |-> "iter", line |-> 863, list |-> "high_high_items", i |-> 1],
     [op |-> "para_or_add", line |-> 864, idx |-> 2],
     [op |-> "text", line |-> 865, e |-> [k |-> "item", v |-> 1]],
     [op |-> "size", line |-> 866, pt |-> 14],
     [op |-> "rgb", line |-> 867, e |-> [k |-> "key", v |-> "light_gray"]],
     [op |-> "iter", line |-> 863, list |-> "high_high_items", i |-> 2],
     [op |-> "para_or_add", line |-> 864, idx |-> 3],
     [op |-> "text", line |-> 865, e |-> [k |-> "item", v |-> 1]],
     [op |-> "size", line |-> 866, pt |-> 14],
     [op |-> "rgb", line |-> 867, e |-> [k |-> "key", v |-> "light_gray"]],
     [op |-> "endfor", line |-> 863, list |-> "high_high_items"],
     [op |-> "notes_slide", line |-> 870],
     [op |-> "bind", line |-> 871, name |-> "notes_text_frame"],
     [op |-> "notes_text", line |-> 872, e |-> [k |-> "str", v |-> "Show the strategic approach to optimization. Emphasize that this is just the beginning."]],
     [op |-> "return", line |-> 872] >>

\* create_cta_slide(prs, colors), source lines 874-929: one record per executed
\* statement, the for loops over literal lists unrolled.
create_cta_slide ==
  << [op |-> "layout", line |-> 876, idx |-> 6],
     [op |-> "add_slide", line |-> 877],
     [op |-> "bind", line |-> 880, name |-> "background"],
     [op |-> "bind", line |-> 881, name |-> "fill"],
     [op |-> "solid", line |-> 882],
     [op |-> "bg_rgb", line |-> 883, e |-> [k |-> "key", v |-> "action_gradient_start"]],
     [op |-> "add_textbox", line |-> 886, name |-> "title_box", left |-> 914400, top |-> 457200, width |-> 10360152, height |-> 914400],
     [op |-> "bind", line |-> 887, name |-> "title_frame"],
     [op |-> "clear", line |-> 888],
     [op |-> "para", line |-> 889, idx |-> 0],
     [op |-> "text", line |-> 890, e |-> [k |-> "str", v |-> "Performance is a Feature, Not a Nice-to-Have"]],
     [op |-> "size", line |-> 891, pt |-> 36],
     [op |-> "bold", line |-> 892, b |-> TRUE],
     [op |-> "font", line |-> 893, e |-> [k |-> "str", v |-> "Roboto"]],
     [op |-> "rgb", line |-> 894, e |-> [k |-> "key", v |-> "white"]],
     [op |-> "align", line |-> 895, a |-> "CENTER"],
     [op |-> "add_textbox", line |-> 898, name |-> "takeaways_box", left |-> 1828800, top |-> 1828800, width |-> 8531352, height |-> 1828800],
     [op |-> "bind", line |-> 899, name |-> "takeaways_frame"],
     [op |-> "clear", line |-> 900],
     [op |-> "list", line |-> 902, name |-> "takeaways", items |-> <<<<[k |-> "str", v |-> "1. Add Lighthouse CI to your pipeline today"]>>,
        <<[k |-> "str", v |-> "2. Set budget limits in angular.json"]>>,
        <<[k |-> "str", v |-> "3. Make one optimization per sprint"]>>>>],
     [op |-> "iter", line |-> 908, list |-> "takeaways", i |-> 0],
     [op |-> "para_or_add", line |-> 909, idx |-> 0],
     [op |-> "text", line |-> 910, e |-> [k |-> "item", v |-> 1]],
     [op |-> "size", line |-> 911, pt |-> 20],
     [op |-> "rgb", line |-> 912, e |-> [k |-> "key", v |-> "light_gray"]],
     [op |-> "align", line |-> 913, a |-> "CENTER"],
     [op |-> "iter", line |-> 908, list |-> "takeaways", i |-> 1],
     [op |-> "para_or_add", line |-> 909, idx |-> 1],
     [op |-> "text", line |-> 910, e |-> [k |-> "item", v |-> 1]],
     [op |-> "size", line |-> 911, pt |-> 20],
     [op |-> "rgb", line |-> 912, e |-> [k |-> "key", v |-> "light_gray"]],
     [op |-> "align", line |-> 913, a |-> "CENTER"],
     [op |-> "iter", line |-> 908, list |-> "takeaways", i |-> 2],
     [op |-> "para_or_add", line |-> 909, idx |-> 2],
     [op |-> "text", line |-> 910, e |-> [k |-> "item", v |-> 1]],
     [op |-> "size", line |-> 911, pt |-> 20],
     [op |-> "rgb", line |-> 912, e |-> [k |-> "key", v |-> "light_gray"]],
     [op |-> "align", line |-> 913, a |-> "CENTER"],
     [op |-> "endfor", line |-> 908, list |-> "takeaways"],
     [op |-> "add_textbox", line |-> 916, name |-> "closing_box", left |-> 914400, top |-> 4114800, width |-> 10360152, height |-> 1371600],
     [op |-> "bind", line |-> 917, name |-> "closing_frame"],
     [op |-> "clear", line |-> 918],
     [op |-> "para", line |-> 919, idx |-> 0],
     [op |-> "text", line |-> 920, e |-> [k |-> "str", v |-> "Remember: Every millisecond is a vote of confidence in your users."]],
     [op |-> "size", line |-> 921, pt |-> 24],
     [op |-> "bold", line |-> 922, b |-> TRUE],
     [op |-> "rgb", line |-> 923, e |-> [k |-> "key", v |-> "accent_orange"]],
     [op |-> "align", line |-> 924, a |-> "CENTER"],
     [op |-> "notes_slide", line |-> 927],
     [op |-> "bind", line |-> 928, name |-> "notes_text_frame"],
     [op |-> "notes_text", line |-> 929, e |-> [k |-> "str", v |-> "End with energy and conviction. Make it clear this is achievable. Encourage immediate action."]],
     [op |-> "return", line |-> 929] >>

\* create_qa_slide(prs, colors), source lines 931-982: one record per executed
\* statement, the for loops over literal lists unrolled.
create_qa_slide ==
  << [op |-> "layout", line |-> 933, idx |-> 6],
     [op |-> "add_slide", line |-> 934],
     [op |-> "bind", line |-> 937, name |-> "background"],
     [op |-> "bind", line |-> 938, name |-> "fill"],
     [op |-> "solid", line |-> 939],
     [op |-> "bg_rgb", line |-> 940, e |-> [k |-> "key", v |-> "discussion_gradient_start"]],
     [op |-> "add_textbox", line |-> 943, name |-> "title_box", left |-> 914400, top |-> 457200, width |-> 10360152, height |-> 914400],
     [op |-> "bind", line |-> 944, name |-> "title_frame"],
     [op |-> "clear", line |-> 945],
     [op |-> "para", line |-> 946, idx |-> 0],
     [op |-> "text", line |-> 947, e |-> [k |-> "str", v |-> "Questions & Discussion"]],
     [op |-> "size", line |-> 948, pt |-> 36],
     [op |-> "bold", line |-> 949, b |-> TRUE],
     [op |-> "font", line |-> 950, e |-> [k |-> "str", v |-> "Roboto"]],
     [op |-> "rgb", line |-> 951, e |-> [k |-> "key", v |-> "white"]],
     [op |-> "align", line |-> 952, a |-> "CENTER"],
     [op |-> "add_textbox", line |-> 955, name |-> "resources_box", left |-> 1828800, top |-> 2286000, width |-> 8531352, height |-> 1828800],
     [op |-> "bind", line |-> 956, name |-> "resources_frame"],
     [op |-> "clear", line |-> 957],
     [op |-> "para", line |-> 958, idx |-> 0],
     [op |-> "text", line |-> 959, e |-> [k |-> "str", v |-> "Key Resources:"]],
     [op |-> "size", line |-> 960, pt |-> 20],
     [op |-> "bold", line |-> 961, b |-> TRUE],
     [op |-> "rgb", line |-> 962, e |-> [k |-> "key", v |-> "accent_cyan"]],
     [op |-> "align", line |-> 963, a |-> "CENTER"],
     [op |-> "list", line |-> 965, name |-> "resources", items |-> <<<<[k |-> "str", v |-> "{U+2022} Angular Performance Guide"]>>,
        <<[k |-> "str", v |-> "{U+2022} Lighthouse Documentation"]>>,
        <<[k |-> "str", v |-> "{U+2022} Web.dev Performance"]>>,
        <<[k |-> "str", v |-> "{U+2022} Core Web Vitals"]>>>>],
     [op |-> "iter", line |-> 972, list |-> "resources", i |-> 0],
     [op |-> "para_or_add", line |-> 973, idx |-> 1],
     [op |-> "text", line |-> 974, e |-> [k |-> "item", v |-> 1]],
     [op |-> "size", line |-> 975, pt |-> 16],
     [op |-> "rgb", line |-> 976, e |-> [k |-> "key", v |-> "light_gray"]],
     [op |-> "align", line |-> 977, a |-> "CENTER"],
     [op |-> "iter", line |-> 972, list |-> "resources", i |-> 1],
     [op |-> "para_or_add", line |-> 973, idx |-> 2],
     [op |-> "text", line |-> 974, e |-> [k |-> "item", v |-> 1]],
     [op |-> "size", line |-> 975, pt |-> 16],
     [op |-> "rgb", line |-> 976, e |-> [k |-> "key", v |-> "light_gray"]],
     [op |-> "align", line |-> 977, a |-> "CENTER"],
     [op |-> "iter", line |-> 972, list |-> "resources", i |-> 2],
     [op |-> "para_or_add", line |-> 973, idx |-> 3],
     [op |-> "text", line |-> 974, e |-> [k |-> "item", v |-> 1]],
     [op |-> "size", line |-> 975, pt |-> 16],
     [op |-> "rgb", line |-> 976, e |-> [k |-> "key", v |-> "light_gray"]],
     [op |-> "align", line |-> 977, a |-> "CENTER"],
     [op |-> "iter", line |-> 972, list |-> "resources", i |-> 3],
     [op |-> "para_or_add", line |-> 973, idx |-> 4],
     [op |-> "text", line |-> 974, e |-> [k |-> "item", v |-> 1]],
     [op |-> "size", line |-> 975, pt |-> 16],
     [op |-> "rgb", line |-> 976, e |-> [k |-> "key", v |-> "light_gray"]],
     [op |-> "align", line |-> 977, a |-> "CENTER"],
     [op |-> "endfor", line |-> 972, list |-> "resources"],
     [op |-> "notes_slide", line |-> 980],
     [op |-> "bind", line |-> 981, name |-> "notes_text_frame"],
     [op |-> "notes_text", line |-> 982, e |-> [k |-> "str", v |-> "Be prepared for technical questions. Have backup slides with more details. Encourage discussion and feedback."]],
     [op |-> "return", line |-> 982] >>

\* create_thank_you_slide(prs, colors), source lines 984-1020: one record per executed
\* statement, the for loops over literal lists unrolled.
create_thank_you_slide ==
  << [op |-> "layout", line |-> 986, idx |-> 6],
     [op |-> "add_slide", line |-> 987],
     [op |-> "bind", line |-> 990, name |-> "background"],
     [op |-> "bind", line |-> 991, name |-> "fill"],
     [op |-> "solid", line |-> 992],
     [op |-> "bg_rgb", line |-> 993, e |-> [k |-> "key", v |-> "gratitude_gradient_start"]],
     [op |-> "add_textbox", line |-> 996, name |-> "title_box", left |-> 914400, top |-> 1828800, width |-> 10360152, height |-> 1371600],
     [op |-> "bind", line |-> 997, name |-> "title_frame"],
     [op |-> "clear", line |-> 998],
     [op |-> "para", line |-> 999, idx |-> 0],
     [op |-> "text", line |-> 1000, e |-> [k |-> "str", v |-> "Thank You for Your Time"]],
     [op |-> "size", line |-> 1001, pt |-> 36],
     [op |-> "bold", line |-> 1002, b |-> TRUE],
     [op |-> "font", line |-> 1003, e |-> [k |-> "str", v |-> "Roboto"]],
     [op |-> "rgb", line |-> 1004, e |-> [k |-> "key", v |-> "white"]],
     [op |-> "align", line |-> 1005, a |-> "CENTER"],
     [op |-> "add_textbox", line |-> 1008, name |-> "message_box", left |-> 914400, top |-> 3657600, width |-> 10360152, height |-> 1371600],
     [op |-> "bind", line |-> 1009, name |-> "message_frame"],
     [op |-> "clear", line |-> 1010],
     [op |-> "para", line |-> 1011, idx |-> 0],
     [op |-> "text", line |-> 1012, e |-> [k |-> "str", v |-> "Let's make the web faster, one optimization at a time."]],
     [op |-> "size", line |-> 1013, pt |-> 24],
     [op |-> "rgb", line |-> 1014, e |-> [k |-> "key", v |-> "accent_orange"]],
     [op |-> "align", line |-> 1015, a |-> "CENTER"],
     [op |-> "notes_slide", line |-> 1018],
     [op |-> "bind", line |-> 1019, name |-> "notes_text_frame"],
     [op |-> "notes_text", line |-> 1020, e |-> [k |-> "str", v |-> "End on a positive note. Encourage follow-up conversations. Thank the audience for their attention."]],
     [op |-> "return", line |-> 1020] >>
\* The functions of the script, by name.
Program(fn) ==
  CASE fn = "main" -> main
    [] fn = "create_angular_presentation" -> create_angular_presentation
    [] fn = "create_title_slide" -> create_title_slide
    [] fn = "create_hook_slide" -> create_hook_slide
    [] fn = "create_lighthouse_metrics_slide" -> create_lighthouse_metrics_slide
    [] fn = "create_approach_slide" -> create_approach_slide
    [] fn = "create_lazy_loading_slide" -> create_lazy_loading_slide
    [] fn = "create_onpush_slide" -> create_onpush_slide
    [] fn = "create_font_loading_slide" -> create_font_loading_slide
    [] fn = "create_material_modules_slide" -> create_material_modules_slide
    [] fn = "create_demo_slide" -> create_demo_slide
    [] fn = "create_results_slide" -> create_results_slide
    [] fn = "create_roadmap_slide" -> create_roadmap_slide
    [] fn = "create_cta_slide" -> create_cta_slide
    [] fn = "create_qa_slide" -> create_qa_slide
    [] fn = "create_thank_you_slide" -> create_thank_you_slide

\* The builders in the order create_angular_presentation() calls them.
Builders ==
  [k \in 1..14 |-> create_angular_presentation[4 + k].fn]

BuilderSet == {Builders[k] : k \in 1..14}

Functions == {"main", "create_angular_presentation"} \cup BuilderSet

\* prs.slide_layouts of the default template of Presentation(); the script
\* indexes it with 6 (0-based).
slide_layouts ==
  << "Title Slide", "Title and Content", "Section Header", "Two Content",
     "Comparison", "Title Only", "Blank", "Content with Caption",
     "Picture with Caption", "Title and Vertical Text",
     "Vertical Title and Text" >>

\* No presentation object yet (before Presentation() is called).
NoPresentation ==
  [made |-> FALSE, slide_width |-> 0, slide_height |-> 0, slides |-> <<>>]

\* Presentation(): the default template, 10in x 7.5in, without slides.
Presentation ==
  [made |-> TRUE, slide_width |-> Inches(1000), slide_height |-> Inches(750),
   slides |-> <<>>]

\* A paragraph with nothing set: no text, and size, font, colour and alignment
\* inherited (0, "", <<>>, "" stand for None; bold None is FALSE).
EmptyParagraph ==
  [text |-> "", size |-> 0, bold |-> FALSE, font |-> "", rgb |-> <<>>,
   align |-> ""]

\* A frame of the call stack: the function, the index of its next
\* instruction and its local variables (slide, current text box, current
\* paragraph, the list literals, the loop item, output_path).
Frame(fn) ==
  [fn |-> fn, ip |-> 1, slide |-> 0, layout |-> "", box |-> 0, p |-> 0,
   lists |-> <<>>, item |-> <<>>, out |-> ""]

NoException == [type |-> "None", key |-> "", fn |-> "", line |-> 0]

Top == stack[Len(stack)]

Instr == Program(Top.fn)[Top.ip]

\* The colour names an instruction looks up in the colours dictionary.
OperandOps ==
  {"bg_rgb", "text", "font", "rgb", "notes_text", "print", "output_path",
   "print_path", "print_count"}

ItemKeys(item) == {item[j].v : j \in {j \in 1..Len(item) : item[j].k = "key"}}

Keys(i) ==
  IF i.op \in OperandOps
    THEN (IF i.e.k = "key" THEN {i.e.v} ELSE {})
    ELSE IF i.op = "list"
      THEN UNION {ItemKeys(i.items[n]) : n \in 1..Len(i.items)}
      ELSE {}

\* The value of an operand in frame f.
Eval(e, f) ==
  CASE e.k = "key" -> colors[e.v]
    [] e.k = "item" -> f.item[e.v]
    [] OTHER -> e.v

\* (AddSlideFirst: the slide is inserted before the others.)
AddSlideFirst(p, layout, by) ==
  [p EXCEPT !.slides =
     <<[layout |-> layout, by |-> by, fill |-> "none", fore_color |-> <<>>,
        gradient_stops |-> <<>>, shapes |-> <<>>, has_notes |-> FALSE,
        notes |-> ""]>> \o @]

\* prs.slides.add_slide(slide_layout): a new slide at the end of the slides.
\* "by" records the builder that added the slide.  The background of a new
\* slide has no fill of its own and no gradient stops.
AddSlide(p, layout, by) ==
  [p EXCEPT !.slides = Append(@,
     [layout |-> layout, by |-> by, fill |-> "none", fore_color |-> <<>>,
      gradient_stops |-> <<>>, shapes |-> <<>>, has_notes |-> FALSE,
      notes |-> ""])]

\* (FillSolidMissing: the call is left out.)
FillSolidMissing(p, s) == p

\* fill.solid()
FillSolid(p, s) == [p EXCEPT !.slides[s].fill = "solid"]

\* fill.fore_color.rgb = rgb
SetForeColor(p, s, rgb) == [p EXCEPT !.slides[s].fore_color = rgb]

\* slide.shapes.add_textbox(left, top, width, height): a text box whose text
\* frame holds one empty paragraph.
AddTextbox(p, s, i) ==
  [p EXCEPT !.slides[s].shapes = Append(@,
     [name |-> i.name, left |-> i.left, top |-> i.top, width |-> i.width,
      height |-> i.height, paragraphs |-> <<EmptyParagraph>>])]

\* text_frame.clear(): all paragraphs but the first are removed and the first
\* loses its text (its paragraph properties are kept).
ClearFrame(p, s, b) ==
  [p EXCEPT !.slides[s].shapes[b].paragraphs = <<[@[1] EXCEPT !.text = ""]>>]

\* text_frame.add_paragraph()
AddParagraph(p, s, b) ==
  [p EXCEPT !.slides[s].shapes[b].paragraphs = Append(@, EmptyParagraph)]

\* (ParaOrAddAlways: a paragraph is added whether or not one exists.)
ParaOrAddAlways(p, s, b, idx) == AddParagraph(p, s, b)

\* frame.paragraphs[idx] if idx < len(frame.paragraphs) else
\* frame.add_paragraph(): the presentation after the statement ...
ParaOrAdd(p, s, b, idx) ==
  IF idx < Len(p.slides[s].shapes[b].paragraphs) THEN p
  ELSE AddParagraph(p, s, b)

\* ... and the (1-based) paragraph the statement binds.
ParaOrAddIndex(p, s, b, idx) ==
  IF idx < Len(p.slides[s].shapes[b].paragraphs) THEN idx + 1
  ELSE Len(p.slides[s].shapes[b].paragraphs) + 1

\* slide.notes_slide: the notes slide is created on first access.
NotesSlide(p, s) == [p EXCEPT !.slides[s].has_notes = TRUE]

\* (SetNotesTextDropped: the text is not stored.)
SetNotesTextDropped(p, s, text) == p

\* notes_text_frame.text = text
SetNotesText(p, s, text) == [p EXCEPT !.slides[s].notes = text]

\* prs.save(path): the file written holds the slides of the presentation.
Save(fs, p, path) == Append(fs, [path |-> path, prs |-> p])

\* The presentation after instruction i is executed in frame f.
ExecPrs(i, f) ==
  CASE i.op = "Presentation" -> Presentation
    [] i.op = "slide_width" -> [prs EXCEPT !.slide_width = Inches(i.hundredths)]
    [] i.op = "slide_height" -> [prs EXCEPT !.slide_height = Inches(i.hundredths)]
    [] i.op = "add_slide" -> AddSlide(prs, f.layout, f.fn)
    [] i.op = "solid" -> FillSolid(prs, f.slide)
    [] i.op = "bg_rgb" -> SetForeColor(prs, f.slide, Eval(i.e, f))
    [] i.op = "add_textbox" -> AddTextbox(prs, f.slide, i)
    [] i.op = "clear" -> ClearFrame(prs, f.slide, f.box)
    [] i.op = "para_or_add" -> ParaOrAdd(prs, f.slide, f.box, i.idx)
    [] i.op = "text" ->
         [prs EXCEPT !.slides[f.slide].shapes[f.box].paragraphs[f.p].text = Eval(i.e, f)]
    [] i.op = "size" ->
         [prs EXCEPT !.slides[f.slide].shapes[f.box].paragraphs[f.p].size = Pt(i.pt)]
    [] i.op = "bold" ->
         [prs EXCEPT !.slides[f.slide].shapes[f.box].paragraphs[f.p].bold = i.b]
    [] i.op = "font" ->
         [prs EXCEPT !.slides[f.slide].shapes[f.box].paragraphs[f.p].font = Eval(i.e, f)]
    [] i.op = "rgb" ->
         [prs EXCEPT !.slides[f.slide].shapes[f.box].paragraphs[f.p].rgb = Eval(i.e, f)]
    [] i.op = "align" ->
         [prs EXCEPT !.slides[f.slide].shapes[f.box].paragraphs[f.p].align = i.a]
    [] i.op = "notes_slide" -> NotesSlide(prs, f.slide)
    [] i.op = "notes_text" -> SetNotesText(prs, f.slide, Eval(i.e, f))
    [] OTHER -> prs

\* The list a list literal evaluates to: every component evaluated.
EvalList(items, f) ==
  [n \in 1..Len(items) |-> [j \in 1..Len(items[n]) |-> Eval(items[n][j], f)]]

\* The frame after instruction i is executed in it: the locals the statement
\* binds, and the instruction pointer advanced.
ExecFrame(i, f) ==
  LET g == [f EXCEPT !.ip = @ + 1] IN
  CASE i.op = "layout" -> [g EXCEPT !.layout = slide_layouts[i.idx + 1]]
    [] i.op = "add_slide" -> [g EXCEPT !.slide = Len(prs.slides) + 1]
    [] i.op = "add_textbox" ->
         [g EXCEPT !.box = Len(prs.slides[f.slide].shapes) + 1, !.p = 0]
    [] i.op = "para" -> [g EXCEPT !.p = i.idx + 1]
    [] i.op = "para_or_add" ->
         [g EXCEPT !.p = ParaOrAddIndex(prs, f.slide, f.box, i.idx)]
    [] i.op = "list" ->
         [g EXCEPT !.lists =
            [n \in DOMAIN f.lists \cup {i.name} |->
               IF n = i.name THEN EvalList(i.items, f) ELSE f.lists[n]]]
    [] i.op = "iter" -> [g EXCEPT !.item = f.lists[i.list][i.i + 1]]
    [] i.op = "output_path" -> [g EXCEPT !.out = Eval(i.e, f)]
    [] OTHER -> g

\* print(...): the line written to standard output.
Printed(i, f) ==
  CASE i.op = "print" -> Eval(i.e, f)
    [] i.op = "print_path" -> Eval(i.e, f) \o f.out
    [] i.op = "print_count" -> Eval(i.e, f) \o ToString(Len(prs.slides))

\* A statement that is neither a call nor a return executes without error.
ExecStmt ==
  /\ stack # <<>>
  /\ exc.type = "None"
  /\ Instr.op \notin {"call", "return", "return_path"}
  /\ Keys(Instr) \subseteq DOMAIN colors
  /\ Instr.op = "para" => Instr.idx < Len(prs.slides[Top.slide].shapes[Top.box].paragraphs)
  /\ prs' = ExecPrs(Instr, Top)
  /\ stack' = [stack EXCEPT ![Len(stack)] = ExecFrame(Instr, Top)]
  /\ colors' = IF Instr.op = "colors" THEN ColorTable ELSE colors
  /\ stdout' = IF Instr.op \in {"print", "print_path", "print_count"}
                 THEN Append(stdout, Printed(Instr, Top)) ELSE stdout
  /\ files' = IF Instr.op = "save" THEN Save(files, prs, Top.out) ELSE files
  /\ UNCHANGED <<exc, status, calls, result>>

\* A call statement: the callee's frame is pushed; the caller's instruction
\* pointer stays on the call until the callee returns.
CallFn ==
  /\ stack # <<>>
  /\ exc.type = "None"
  /\ Instr.op = "call"
  /\ stack' = Append(stack, Frame(Instr.fn))
  /\ status' = [status EXCEPT ![Instr.fn] = "running"]
  /\ calls' = Append(calls, Instr.fn)
  /\ UNCHANGED <<prs, colors, stdout, files, exc, result>>

\* The stack after its top frame has returned: the frame is popped and the
\* caller moves past its call statement.
PopReturn(st) ==
  IF Len(st) = 1 THEN <<>>
  ELSE [SubSeq(st, 1, Len(st) - 1) EXCEPT ![Len(st) - 1].ip = @ + 1]

\* The end of a function body, or its return statement.
ReturnFn ==
  /\ stack # <<>>
  /\ exc.type = "None"
  /\ Instr.op \in {"return", "return_path"}
  /\ stack' = PopReturn(stack)
  /\ status' = [status EXCEPT ![Top.fn] = "returned"]
  /\ result' = IF Instr.op = "return_path" THEN Top.out ELSE result
  /\ UNCHANGED <<prs, colors, stdout, files, exc, calls>>

\* colors[name] with a name the dictionary does not define raises KeyError;
\* the statement has no effect.
RaiseKeyError ==
  /\ stack # <<>>
  /\ exc.type = "None"
  /\ Instr.op \notin {"call", "return", "return_path"}
  /\ ~ (Keys(Instr) \subseteq DOMAIN colors)
  /\ exc' = [type |-> "KeyError",
             key |-> CHOOSE k \in Keys(Instr) : k \notin DOMAIN colors,
             fn |-> Top.fn, line |-> Instr.line]
  /\ UNCHANGED <<stack, prs, colors, stdout, files, status, calls, result>>

\* The stack after an exception leaves its top frame.
PopRaise(st) == SubSeq(st, 1, Len(st) - 1)

\* (PropagateCaught: the caller catches the exception and goes on with its
\* next statement.)
PropagateCaught ==
  /\ stack # <<>>
  /\ exc.type # "None"
  /\ stack' = PopReturn(stack)
  /\ exc' = NoException
  /\ status' = [status EXCEPT ![Top.fn] = "raised"]
  /\ UNCHANGED <<prs, colors, stdout, files, calls, result>>

\* No function of the script has a try statement: a pending exception leaves
\* the top frame, and so on up to the top level.
Propagate ==
  /\ stack # <<>>
  /\ exc.type # "None"
  /\ stack' = PopRaise(stack)
  /\ status' = [status EXCEPT ![Top.fn] = "raised"]
  /\ UNCHANGED <<prs, colors, stdout, files, exc, calls, result>>

\* The script is run: main() is called on a fresh interpreter.
Init ==
  /\ stack = <<Frame("main")>>
  /\ prs = NoPresentation
  /\ colors = <<>>
  /\ stdout = <<>>
  /\ files = <<>>
  /\ exc = NoException
  /\ status = [fn \in Functions |-> IF fn = "main" THEN "running" ELSE "not_called"]
  /\ calls = <<"main">>
  /\ result = ""

Next == ExecStmt \/ CallFn \/ ReturnFn \/ RaiseKeyError \/ Propagate

Spec == Init /\ [][Next]_vars

\* The same run under the scheduling of a sequential interpreter: a step that
\* can be taken is taken.
FairSpec == Spec /\ WF_vars(Next)

\* One builder called on its own with the presentation and the colour table
\* that create_angular_presentation() sets up (lines 19-67).
BuilderInit ==
  \E k \in 1..14 :
    /\ stack = <<Frame(Builders[k])>>
    /\ prs = [Presentation EXCEPT !.slide_width = Inches(1333),
                                  !.slide_height = Inches(750)]
    /\ colors = ColorTable
    /\ stdout = <<>>
    /\ files = <<>>
    /\ exc = NoException
    /\ status = [fn \in Functions |-> IF fn = Builders[k] THEN "running" ELSE "not_called"]
    /\ calls = <<Builders[k]>>
    /\ result = ""

BuilderNext == ExecStmt \/ ReturnFn \/ RaiseKeyError \/ Propagate

BuilderSpec == BuilderInit /\ [][BuilderNext]_vars

(***************************************************************************)
(* Properties.                                                             *)
(***************************************************************************)

CAP == "create_angular_presentation"

Slides == prs.slides

\* The position of a builder in the call order.
BuilderIndex(fn) == CHOOSE k \in 1..14 : Builders[k] = fn

\* main() is over: by return or by an exception that left it.
MainOver == stack = <<>>

\* The line main() prints after the save, and the path it saves to.
OutputPath == main[3].e.v

SuccessLine == main[5].e.v \o OutputPath

SuccessPrinted == \E n \in 1..Len(stdout) : stdout[n] = SuccessLine

\* The order of the slides of the deck: title, hook, Lighthouse metrics,
\* approach, lazy loading, OnPush, font loading, Material modules, demo,
\* results, roadmap, call to action, Q&A, thank you.
DeckOrder ==
  << "create_title_slide", "create_hook_slide",
     "create_lighthouse_metrics_slide", "create_approach_slide",
     "create_lazy_loading_slide", "create_onpush_slide",
     "create_font_loading_slide", "create_material_modules_slide",
     "create_demo_slide", "create_results_slide", "create_roadmap_slide",
     "create_cta_slide", "create_qa_slide", "create_thank_you_slide" >>

\* C1: a run of main() is one linear pass: once main() is over, the fourteen
\* builders have been called once each, in order, and the presentation has
\* been saved exactly once, to the fixed output path.
C1_LinearPassThenOneSave ==
  MainOver =>
    /\ calls = <<"main", CAP>> \o DeckOrder
    /\ Len(files) = 1
    /\ files[1].path = "/workspace/Angular_Optimization_TED_Talk.pptx"

\* C2: once create_angular_presentation() is over it has returned a
\* presentation that holds exactly 14 slides, in the order of the deck.
C2_FourteenSlidesInOrder ==
  status[CAP] \in {"returned", "raised"} =>
    /\ status[CAP] = "returned"
    /\ Len(Slides) = 14
    /\ \A k \in 1..14 : Slides[k].by = DeckOrder[k]

\* C3: failure is not handled: once a statement has raised, the exception
\* stays pending and leaves one frame after the other (the builder,
\* create_angular_presentation(), main()); no later builder is called, no
\* call is repeated, the presentation is not touched, nothing is saved and
\* the success message is not printed.
C3_FailurePropagatesUncaught ==
  /\ [](exc.type # "None" =>
          /\ files = <<>>
          /\ ~ SuccessPrinted
          /\ \A m, n \in 1..Len(calls) : calls[m] = calls[n] => m = n
          /\ MainOver =>
               /\ status[exc.fn] = "raised"
               /\ status[CAP] = "raised"
               /\ status["main"] = "raised"
               /\ result = "")
  /\ [][exc.type # "None" =>
          /\ exc' = exc
          /\ Len(stack') = Len(stack) - 1
          /\ calls' = calls
          /\ prs' = prs
          /\ files' = files
          /\ stdout' = stdout]_vars

\* C3 witness: a builder has raised and the exception has left main().
C3_Witness ==
  /\ exc.type = "KeyError"
  /\ exc.fn \in BuilderSet
  /\ MainOver

\* C4: every slide whose builder has returned carries non-empty speaker
\* notes, and setting the notes is the last step of a builder: a slide has
\* its notes text only when its builder is at its return or has returned.
C4_NotesSetLastByEachBuilder ==
  \A s \in 1..Len(Slides) :
    /\ status[Slides[s].by] = "returned" => Slides[s].notes # ""
    /\ Slides[s].notes # "" =>
         \/ status[Slides[s].by] = "returned"
         \/ /\ stack # <<>>
            /\ Top.fn = Slides[s].by
            /\ Instr.op = "return"
            /\ Program(Top.fn)[Top.ip - 1].op = "notes_text"

\* C4 witness: the first six builders have returned and their slides have
\* notes.
C4_Witness ==
  /\ Len(Slides) >= 6
  /\ \A s \in 1..6 : status[Slides[s].by] = "returned" /\ Slides[s].notes # ""

\* The colour names of the gradient each builder announces for its
\* background (the comment above its fill statements).
GradientName ==
  [ create_title_slide |-> "title_bg",
    create_hook_slide |-> "red_gradient",
    create_lighthouse_metrics_slide |-> "blue_gradient",
    create_approach_slide |-> "green_gradient",
    create_lazy_loading_slide |-> "orange_gradient",
    create_onpush_slide |-> "purple_gradient",
    create_font_loading_slide |-> "teal_gradient",
    create_material_modules_slide |-> "indigo_gradient",
    create_demo_slide |-> "dark_gradient",
    create_results_slide |-> "success_gradient",
    create_roadmap_slide |-> "future_gradient",
    create_cta_slide |-> "action_gradient",
    create_qa_slide |-> "discussion_gradient",
    create_thank_you_slide |-> "gratitude_gradient" ]

\* C5: the background of a slide, once its colour is set, is a gradient
\* that runs from the '<name>_start' colour to the '<name>_end' colour of
\* the colour table.
C5_GradientBackground ==
  \A s \in 1..Len(Slides) :
    Slides[s].fore_color # <<>> =>
      /\ Slides[s].fill = "gradient"
      /\ Slides[s].gradient_stops =
           << ColorTable[GradientName[Slides[s].by] \o "_start"],
              ColorTable[GradientName[Slides[s].by] \o "_end"] >>

\* create_angular_presentation() is past the statements that set the slide
\* dimensions (lines 22-23).
DimensionsSet ==
  \/ status[CAP] \in {"returned", "raised"}
  \/ \E j \in 1..Len(stack) : stack[j].fn = CAP /\ stack[j].ip > 3

\* C6: the slide dimensions are 16:9, width * 9 = height * 16, from the
\* moment they are set, and no later step changes them.
C6_WidescreenDimensions ==
  /\ [](DimensionsSet => prs.slide_width * 9 = prs.slide_height * 16)
  /\ [][DimensionsSet =>
          /\ prs'.slide_width = prs.slide_width
          /\ prs'.slide_height = prs.slide_height]_vars

\* C7: main() prints the success message and the slide count only after the
\* save, and when main() is over it has reported 14 slides and returned the
\* output path it saved to.
C7_SuccessReportedAfterSave ==
  /\ SuccessPrinted => files # <<>>
  /\ MainOver =>
       /\ files # <<>>
       /\ stdout = << main[1].e.v, SuccessLine, "Total slides: 14" >>
       /\ result = files[1].path

\* C8: every colour name a builder statement looks up is a key of the
\* colour table, so that no lookup raises KeyError.
C8_ColourKeysDefined ==
  /\ (stack # <<>> /\ Top.fn \in BuilderSet) =>
       Keys(Instr) \subseteq DOMAIN ColorTable
  /\ exc.type # "KeyError"

\* C9: the k-th builder is called on a presentation of k-1 slides; its
\* add_slide statement appends one slide of the blank layout (index 6) at the
\* end, no other statement of a builder changes the number of slides, and no
\* statement of a builder changes a slide added before, the colour table or
\* the slide dimensions; a builder that returns leaves k slides.
C9_BuilderAppendsOneSlide ==
  [][(stack # <<>> /\ exc.type = "None") =>
       /\ (Instr.op = "call" /\ Instr.fn \in BuilderSet) =>
            Len(Slides) = BuilderIndex(Instr.fn) - 1
       /\ Top.fn \in BuilderSet =>
            /\ colors' = colors
            /\ prs'.slide_width = prs.slide_width
            /\ prs'.slide_height = prs.slide_height
            /\ \A s \in 1..(BuilderIndex(Top.fn) - 1) :
                 /\ s <= Len(prs'.slides)
                 /\ prs'.slides[s] = Slides[s]
            /\ Len(prs'.slides) =
                 IF Instr.op = "add_slide" THEN BuilderIndex(Top.fn)
                 ELSE Len(Slides)
            /\ Instr.op = "add_slide" =>
                 /\ prs'.slides[Len(prs'.slides)].layout = slide_layouts[6 + 1]
                 /\ prs'.slides[Len(prs'.slides)].layout = "Blank"
                 /\ prs'.slides[Len(prs'.slides)].by = Top.fn
            /\ Instr.op = "return" => Len(Slides) = BuilderIndex(Top.fn)]_vars

\* C9 witness: the third builder is at work on the slide it appended to the
\* two slides of the builders before it.
C9_Witness ==
  /\ stack # <<>>
  /\ Top.fn = Builders[3]
  /\ Top.slide = 3
  /\ Len(Slides) = 3
  /\ Slides[1].notes # "" /\ Slides[2].notes # ""

\* The number of text boxes a builder adds to its slide.
TextboxCount(fn) ==
  Cardinality({j \in DOMAIN Program(fn) : Program(fn)[j].op = "add_textbox"})

\* A slide is complete: solid background with its colour, all the text boxes
\* of its builder, and speaker notes.
Complete(slide) ==
  /\ slide.fill = "solid"
  /\ slide.fore_color # <<>>
  /\ Len(slide.shapes) = TextboxCount(slide.by)
  /\ slide.has_notes
  /\ slide.notes # ""

\* Control is in create_angular_presentation(), between two builder calls
\* (or before the first, or after the last).
BetweenBuilders ==
  /\ stack # <<>>
  /\ exc.type = "None"
  /\ Top.fn = CAP

\* main() is at its save statement.
AtSave ==
  /\ stack # <<>>
  /\ exc.type = "None"
  /\ Top.fn = "main"
  /\ Instr.op = "save"

\* C10: no partially built slide is saved: between two builder calls, at
\* the save statement and in every file written, every slide of the
\* presentation is complete.
C10_NoPartialSlideSaved ==
  /\ (BetweenBuilders \/ AtSave) =>
       \A s \in 1..Len(Slides) : Complete(Slides[s])
  /\ \A n \in 1..Len(files) :
       \A s \in 1..Len(files[n].prs.slides) : Complete(files[n].prs.slides[s])

\* C10 witness: control is between the third and the fourth builder call.
C10_Witness ==
  /\ BetweenBuilders
  /\ Instr.op = "call"
  /\ Instr.fn = Builders[4]
  /\ Len(Slides) = 3

\* The title of a slide is the first text box its builder adds; its text is
\* in the first paragraph of the box.
TitleParagraph(slide) == slide.shapes[1].paragraphs[1]

\* The builder of the slide is past the statements that set the title: it
\* has added its next text box, or it is over.
TitleWritten(slide) ==
  \/ Len(slide.shapes) >= 2
  \/ status[slide.by] \in {"returned", "raised"}

\* C11: the title paragraph of each of slides 3 to 14 is 36 pt, bold,
\* 'Roboto', white and centred, and the main title of the title slide is
\* 48 pt, bold, 'Roboto', white and centred.
C11_TitleParagraphFormat ==
  \A s \in 1..Len(Slides) :
    (TitleWritten(Slides[s]) /\ BuilderIndex(Slides[s].by) # 2) =>
      /\ Slides[s].shapes[1].name = "title_box"
      /\ TitleParagraph(Slides[s]).text # ""
      /\ TitleParagraph(Slides[s]).size =
           (IF BuilderIndex(Slides[s].by) = 1 THEN 48 ELSE 36) * 12700
      /\ TitleParagraph(Slides[s]).bold = TRUE
      /\ TitleParagraph(Slides[s]).font = "Roboto"
      /\ TitleParagraph(Slides[s]).rgb = <<255, 255, 255>>
      /\ TitleParagraph(Slides[s]).align = "CENTER"

\* C11 witness: the builder of slide 14 is over and its slide has its title.
C11_Witness ==
  /\ Len(Slides) = 1
  /\ Slides[1].by = Builders[14]
  /\ status[Builders[14]] \in {"returned", "raised"}
  /\ TitleParagraph(Slides[1]).text = "Thank You for Your Time"
  /\ TitleParagraph(Slides[1]).size = 36 * 12700

\* The builders whose list-filling loop starts at the first paragraph of a
\* text frame that was just cleared: hook, demo, call to action.
ListBuilders ==
  {"create_hook_slide", "create_demo_slide", "create_cta_slide"}

\* The list literal such a builder writes: the operand of item n is
\* ListItems(fn)[n][1].
ListItems(fn) ==
  Program(fn)[CHOOSE j \in DOMAIN Program(fn) : Program(fn)[j].op = "list"].items

\* The position of the end of the loop in the builder.
EndFor(fn) == CHOOSE j \in DOMAIN Program(fn) : Program(fn)[j].op = "endfor"

\* The text box the loop of the builder fills: the last one added before the
\* loop (stats_box, demo_box, takeaways_box).
ListBox(fn) ==
  Cardinality({j \in 1..EndFor(fn) : Program(fn)[j].op = "add_textbox"})

\* The loop of the builder of the slide has run to its end.
LoopOver(slide) ==
  \/ status[slide.by] \in {"returned", "raised"}
  \/ /\ stack # <<>>
     /\ Top.fn = slide.by
     /\ Top.ip >= EndFor(slide.by)

\* C12: in the list-filling loops of the hook, demo and call-to-action
\* slides the text frame holds one empty paragraph when the loop starts; the
\* first item reuses that paragraph, each later item adds exactly one
\* paragraph and is written to it, and when the loop is over the frame
\* holds exactly n paragraphs, paragraph i with item i of the list.
C12_ListFillsParagraphsInOrder ==
  /\ [](\A s \in 1..Len(Slides) :
          (Slides[s].by \in ListBuilders /\ LoopOver(Slides[s])) =>
            LET items == ListItems(Slides[s].by)
                paras == Slides[s].shapes[ListBox(Slides[s].by)].paragraphs
            IN /\ Len(items) >= 1
               /\ Len(paras) = Len(items)
               /\ \A n \in 1..Len(items) : paras[n].text = items[n][1].v)
  /\ [][(stack # <<>> /\ exc.type = "None" /\ Top.fn \in ListBuilders) =>
          LET paras == prs.slides[Top.slide].shapes[Top.box].paragraphs
              after == prs'.slides[Top.slide].shapes[Top.box].paragraphs
          IN /\ (Instr.op = "iter" /\ Instr.i = 0) =>
                  /\ Top.box = ListBox(Top.fn)
                  /\ paras = <<EmptyParagraph>>
             /\ (Instr.op = "para_or_add" /\ Instr.idx = 0) =>
                  /\ after = paras
                  /\ stack'[Len(stack)].p = 1
             /\ (Instr.op = "para_or_add" /\ Instr.idx >= 1) =>
                  /\ Len(paras) = Instr.idx
                  /\ after = Append(paras, EmptyParagraph)
                  /\ stack'[Len(stack)].p = Instr.idx + 1
             /\ (Instr.op = "text" /\ Top.box = ListBox(Top.fn)) =>
                  /\ Len(after) = Len(paras)
                  /\ after[Top.p].text = ListItems(Top.fn)[Top.p][1].v
                  /\ \A n \in 1..(Top.p - 1) : after[n] = paras[n]]_vars

\* C12 witness: the demo builder has returned; its list of four steps
\* fills the four paragraphs of demo_box, the last three added by the loop.
C12_Witness ==
  /\ Len(Slides) = 1
  /\ Slides[1].by = "create_demo_slide"
  /\ status["create_demo_slide"] = "returned"
  /\ Slides[1].shapes[2].name = "demo_box"
  /\ Len(Slides[1].shapes[2].paragraphs) = 4
  /\ Slides[1].shapes[2].paragraphs[4].text = ListItems("create_demo_slide")[4][1].v

====
